---- MODULE Spec2Model ----
(***************************************************************************)
(* A model of the Forth evaluator of src/src/forth.rs and of the console   *)
(* driver of src/src/main.rs.                                              *)
(*                                                                         *)
(* Text is modelled as sequences of one-character strings, so that trim,   *)
(* split, to_lowercase and the number parser are computed and not assumed. *)
(* An f64 is modelled as a normalised fraction [n, d]: when d is a power of *)
(* two it is that f64, and for any other d > 0 it is the f64 nearest to    *)
(* n/d, which is what a decimal literal and a division of exact operands   *)
(* give.  Arithmetic on a rounded operand gives Unknown, an f64 the model  *)
(* has no fraction for.  The steps whose values leave the exact range the  *)
(* model follows (Representable) are cut off by the bounds.  Console       *)
(* output is not part of the state.                                        *)
(***************************************************************************)
EXTENDS Integers, Sequences, FiniteSets, TLC

(***************************************************************************)
(* Bounds                                                                  *)
(***************************************************************************)
\* the largest stack the model follows
MaxStack == 7
\* the largest absolute value of a stack element the model follows
MaxAbs == 12
\* stack elements are fractions whose denominator divides 2^MaxDenExp
MaxDenExp == 1
\* the deepest nesting of Definition tokens the model stores
MaxDepth == 3
\* the number of eval calls of one session the model follows, for the
\* sessions of definitions, of builtins, of sums, of letter case and of
\* unterminated lines
MaxEvalsDefs == 4
MaxEvalsOps == 3
MaxEvalsSums == 2
MaxEvalsCase == 3
MaxEvalsOpen == 3
\* the same for the sessions that redefine builtins
MaxEvalsShadow == 3
\* the same for the sessions of definitions that fail
MaxEvalsBad == 3
\* the same for the sessions of binary arithmetic
MaxEvalsArith == 2
\* the same for the sessions of lines of every outcome
MaxEvalsOutcomes == 3
\* the same for the sessions of lines that mix blocks and top-level tokens
MaxEvalsLine == 3
\* the same for the sessions that watch the dictionary
MaxEvalsFrame == 3

(***************************************************************************)
(* Characters and strings                                                  *)
(***************************************************************************)
\* A character is a string of one character. The strings of the module hold
\* the characters of Latin-1 and part of those beyond; a character they
\* cannot hold appears only as the lower case of one they can, and is
\* written U+hhhh.
\*
\* the characters that char::to_lowercase changes and, in the same places,
\* the characters it gives for them (the tables of Unicode 14 and the pairs
\* that Unicode 16 and 17 added)
UpperChars ==
    <<"A","B","C","D","E","F","G","H","I","J","K","L","M","N","O","P","Q",
      "R","S","T","U","V","W","X","Y","Z","À","Á","Â","Ã","Ä","Å","Æ","Ç",
      "È","É","Ê","Ë","Ì","Í","Î","Ï","Ð","Ñ","Ò","Ó","Ô","Õ","Ö","Ø","Ù",
      "Ú","Û","Ü","Ý","Þ","Ɓ","Ƃ","Ƅ","Ɔ","Ƈ","Ɖ","Ɗ","Ƌ","Ǝ","Ə","Ɛ","Ƒ",
      "Ɠ","Ɣ","Ɩ","Ɨ","Ƙ","Ɯ","Ɲ","Ɵ","Ơ","Ƣ","Ƥ","Ʀ","Ƨ","Ʃ","Ƭ","Ʈ","Ư",
      "Ʊ","Ʋ","Ƴ","Ƶ","Ʒ","Ƹ","Ƽ","Ǆ","ǅ","Ǉ","ǈ","Ǌ","ǋ","Ǎ","Ǐ","Ǒ","Ǔ",
      "Ǖ","Ǘ","Ǚ","Ǜ","Ǟ","Ǡ","Ǣ","Ǥ","Ǧ","Ǩ","Ǫ","Ǭ","Ǯ","Ǳ","ǲ","Ǵ","Ƕ",
      "Ƿ","Ǹ","Ǻ","Ǽ","Ǿ","Ά","Έ","Ή","Ί","Ό","Ύ","Ώ","Α","Β","Γ","Δ","Ε",
      "Ζ","Η","Θ","Ι","Κ","Λ","Μ","Ν","Ξ","Ο","Π","Ρ","Σ","Τ","Υ","Φ","Χ",
      "Ψ","Ω","Ϊ","Ϋ","Ϗ","Ϙ","Ϛ","Ϝ","Ϟ","Ϡ","Ϣ","Ϥ","Ϧ","Ϩ","Ϫ","Ϭ","Ϯ",
      "ϴ","Ϸ","Ϲ","Ϻ","Ͻ","Ͼ","Ͽ","Ҁ","Ҋ","Ҍ","Ҏ","Ґ","Ғ","Ҕ","Җ","Ҙ","Қ",
      "Ҝ","Ҟ","Ҡ","Ң","Ҥ","Ҧ","Ҩ","Ҫ","Ҭ","Ү","Ұ","Ҳ","Ҵ","Ҷ","Ҹ","Һ","Ҽ",
      "Ҿ","Ӏ","Ӂ","Ӄ","Ӆ","Ӈ","Ӊ","Ӌ","Ӎ","Ӑ","Ӓ","Ӕ","Ӗ","Ә","Ӛ","Ӝ","Ӟ",
      "Ӡ","Ӣ","Ӥ","Ӧ","Ө","Ӫ","Ӭ","Ӯ","Ӱ","Ӳ","Ӵ","Ӷ","Ӹ","Ӻ","Ӽ","Ӿ","Ⴀ",
      "Ⴁ","Ⴂ","Ⴃ","Ⴄ","Ⴅ","Ⴆ","Ⴇ","Ⴈ","Ⴉ","Ⴊ","Ⴋ","Ⴌ","Ⴍ","Ⴎ","Ⴏ","Ⴐ","Ⴑ",
      "Ⴒ","Ⴓ","Ⴔ","Ⴕ","Ⴖ","Ⴗ","Ⴘ","Ⴙ","Ⴚ","Ⴛ","Ⴜ","Ⴝ","Ⴞ","Ⴟ","Ⴠ","Ⴡ","Ⴢ",
      "Ⴣ","Ⴤ","Ⴥ","Ⴧ","Ⴭ","Ꭰ","Ꭱ","Ꭲ","Ꭳ","Ꭴ","Ꭵ","Ꭶ","Ꭷ","Ꭸ","Ꭹ","Ꭺ","Ꭻ",
      "Ꭼ","Ꭽ","Ꭾ","Ꭿ","Ꮀ","Ꮁ","Ꮂ","Ꮃ","Ꮄ","Ꮅ","Ꮆ","Ꮇ","Ꮈ","Ꮉ","Ꮊ","Ꮋ","Ꮌ",
      "Ꮍ","Ꮎ","Ꮏ","Ꮐ","Ꮑ","Ꮒ","Ꮓ","Ꮔ","Ꮕ","Ꮖ","Ꮗ","Ꮘ","Ꮙ","Ꮚ","Ꮛ","Ꮜ","Ꮝ",
      "Ꮞ","Ꮟ","Ꮠ","Ꮡ","Ꮢ","Ꮣ","Ꮤ","Ꮥ","Ꮦ","Ꮧ","Ꮨ","Ꮩ","Ꮪ","Ꮫ","Ꮬ","Ꮭ","Ꮮ",
      "Ꮯ","Ꮰ","Ꮱ","Ꮲ","Ꮳ","Ꮴ","Ꮵ","Ꮶ","Ꮷ","Ꮸ","Ꮹ","Ꮺ","Ꮻ","Ꮼ","Ꮽ","Ꮾ","Ꮿ",
      "Ᏸ","Ᏹ","Ᏺ","Ᏻ","Ᏼ","Ᏽ","Ᲊ","Ა","Ბ","Გ","Დ","Ე","Ვ","Ზ","Თ","Ი","Კ",
      "Ლ","Მ","Ნ","Ო","Პ","Ჟ","Რ","Ს","Ტ","Უ","Ფ","Ქ","Ღ","Ყ","Შ","Ჩ","Ც",
      "Ძ","Წ","Ჭ","Ხ","Ჯ","Ჰ","Ჱ","Ჲ","Ჳ","Ჴ","Ჵ","Ჶ","Ჷ","Ჸ","Ჹ","Ჺ","Ჽ",
      "Ჾ","Ჿ","Ẁ","Ẃ","Ẅ","Ẇ","Ẉ","Ẋ","Ẍ","Ẏ","Ẑ","Ẓ","Ẕ","ẞ","Ạ","Ả","Ấ",
      "Ầ","Ẩ","Ẫ","Ậ","Ắ","Ằ","Ẳ","Ẵ","Ặ","Ẹ","Ẻ","Ẽ","Ế","Ề","Ể","Ễ","Ệ",
      "Ỉ","Ị","Ọ","Ỏ","Ố","Ồ","Ổ","Ỗ","Ộ","Ớ","Ờ","Ở","Ỡ","Ợ","Ụ","Ủ","Ứ",
      "Ừ","Ử","Ữ","Ự","Ỳ","Ỵ","Ỷ","Ỹ","Ỻ","Ỽ","Ỿ","ᾈ","ᾉ","ᾊ","ᾋ","ᾌ","ᾍ",
      "ᾎ","ᾏ","ᾘ","ᾙ","ᾚ","ᾛ","ᾜ","ᾝ","ᾞ","ᾟ","ᾨ","ᾩ","ᾪ","ᾫ","ᾬ","ᾭ","ᾮ",
      "ᾯ","Ᾰ","Ᾱ","Ὰ","Ά","ᾼ","Ὲ","Έ","Ὴ","Ή","ῌ","Ῐ","Ῑ","Ὶ","Ί","Ῠ","Ῡ",
      "Ὺ","Ύ","Ῥ","Ὸ","Ό","Ὼ","Ώ","ῼ","Ↄ","Ⓐ","Ⓑ","Ⓒ","Ⓓ","Ⓔ","Ⓕ","Ⓖ","Ⓗ",
      "Ⓘ","Ⓙ","Ⓚ","Ⓛ","Ⓜ","Ⓝ","Ⓞ","Ⓟ","Ⓠ","Ⓡ","Ⓢ","Ⓣ","Ⓤ","Ⓥ","Ⓦ","Ⓧ","Ⓨ",
      "Ⓩ","Ⲁ","Ⲃ","Ⲅ","Ⲇ","Ⲉ","Ⲋ","Ⲍ","Ⲏ","Ⲑ","Ⲓ","Ⲕ","Ⲗ","Ⲙ","Ⲛ","Ⲝ","Ⲟ",
      "Ⲡ","Ⲣ","Ⲥ","Ⲧ","Ⲩ","Ⲫ","Ⲭ","Ⲯ","Ⲱ","Ⲳ","Ⲵ","Ⲷ","Ⲹ","Ⲻ","Ⲽ","Ⲿ","Ⳁ",
      "Ⳃ","Ⳅ","Ⳇ","Ⳉ","Ⳋ","Ⳍ","Ⳏ","Ⳑ","Ⳓ","Ⳕ","Ⳗ","Ⳙ","Ⳛ","Ⳝ","Ⳟ","Ⳡ","Ⳣ",
      "Ⳬ","Ⳮ","Ⳳ","Ꚁ","Ꚃ","Ꚅ","Ꚇ","Ꚉ","Ꚋ","Ꚍ","Ꚏ","Ꚑ","Ꚓ","Ꚕ","Ꚗ","Ꚙ","Ꚛ",
      "Ꞁ","Ꞃ","Ꞅ","Ꞇ","Ꞌ","Ɥ","Ꞑ","Ꞓ","Ꞗ","Ꞙ","Ꞛ","Ꞝ","Ꞟ","Ꞡ","Ꞣ","Ꞥ","Ꞧ",
      "Ꞩ","Ɦ","Ɜ","Ɡ","Ɬ","Ɪ","Ʞ","Ʇ","Ʝ","Ꭓ","Ꞵ","Ꞷ","Ꞹ","Ꞻ","Ꞽ","Ꞿ","Ꟁ",
      "Ꟃ","Ꞔ","Ʂ","Ᶎ","Ꟈ","Ꟊ","Ɤ","Ꟍ","꟎","Ꟑ","꟒","꟔","Ꟗ","Ꟙ","Ꟛ","Ƛ","Ꟶ">>
LowerChars ==
    <<"a","b","c","d","e","f","g","h","i","j","k","l","m","n","o","p","q",
      "r","s","t","u","v","w","x","y","z","à","á","â","ã","ä","å","æ","ç",
      "è","é","ê","ë","ì","í","î","ï","ð","ñ","ò","ó","ô","õ","ö","ø","ù",
      "ú","û","ü","ý","þ","U+0253","ƃ","ƅ","U+0254","ƈ","U+0256","U+0257",
      "ƌ","ǝ","U+0259","U+025B","ƒ","U+0260","U+0263","U+0269","U+0268","ƙ",
      "U+026F","U+0272","U+0275","ơ","ƣ","ƥ","ʀ","ƨ","ʃ","ƭ","ʈ","ư","ʊ",
      "ʋ","ƴ","ƶ","ʒ","ƹ","ƽ","ǆ","ǆ","ǉ","ǉ","ǌ","ǌ","ǎ","ǐ","ǒ","ǔ","ǖ",
      "ǘ","ǚ","ǜ","ǟ","ǡ","ǣ","ǥ","ǧ","ǩ","ǫ","ǭ","ǯ","ǳ","ǳ","ǵ","ƕ","ƿ",
      "ǹ","ǻ","ǽ","ǿ","ά","έ","ή","ί","ό","ύ","ώ","α","β","γ","δ","ε","ζ",
      "η","θ","ι","κ","λ","μ","ν","ξ","ο","π","ρ","σ","τ","υ","φ","χ","ψ",
      "ω","ϊ","ϋ","ϗ","ϙ","ϛ","ϝ","ϟ","ϡ","ϣ","ϥ","ϧ","ϩ","ϫ","ϭ","ϯ","θ",
      "ϸ","ϲ","ϻ","U+037B","U+037C","U+037D","ҁ","ҋ","ҍ","ҏ","ґ","ғ","ҕ",
      "җ","ҙ","қ","ҝ","ҟ","ҡ","ң","ҥ","ҧ","ҩ","ҫ","ҭ","ү","ұ","ҳ","ҵ","ҷ",
      "ҹ","һ","ҽ","ҿ","ӏ","ӂ","ӄ","ӆ","ӈ","ӊ","ӌ","ӎ","ӑ","ӓ","ӕ","ӗ","ә",
      "ӛ","ӝ","ӟ","ӡ","ӣ","ӥ","ӧ","ө","ӫ","ӭ","ӯ","ӱ","ӳ","ӵ","ӷ","ӹ","ӻ",
      "ӽ","ӿ","U+2D00","U+2D01","U+2D02","U+2D03","U+2D04","U+2D05",
      "U+2D06","U+2D07","U+2D08","U+2D09","U+2D0A","U+2D0B","U+2D0C",
      "U+2D0D","U+2D0E","U+2D0F","U+2D10","U+2D11","U+2D12","U+2D13",
      "U+2D14","U+2D15","U+2D16","U+2D17","U+2D18","U+2D19","U+2D1A",
      "U+2D1B","U+2D1C","U+2D1D","U+2D1E","U+2D1F","U+2D20","U+2D21",
      "U+2D22","U+2D23","U+2D24","U+2D25","U+2D27","U+2D2D","U+AB70",
      "U+AB71","U+AB72","U+AB73","U+AB74","U+AB75","U+AB76","U+AB77",
      "U+AB78","U+AB79","U+AB7A","U+AB7B","U+AB7C","U+AB7D","U+AB7E",
      "U+AB7F","ꮀ","ꮁ","ꮂ","ꮃ","ꮄ","ꮅ","ꮆ","ꮇ","ꮈ","ꮉ","ꮊ","ꮋ","ꮌ","ꮍ","ꮎ",
      "ꮏ","ꮐ","ꮑ","ꮒ","ꮓ","ꮔ","ꮕ","ꮖ","ꮗ","ꮘ","ꮙ","ꮚ","ꮛ","ꮜ","ꮝ","ꮞ","ꮟ",
      "ꮠ","ꮡ","ꮢ","ꮣ","ꮤ","ꮥ","ꮦ","ꮧ","ꮨ","ꮩ","ꮪ","ꮫ","ꮬ","ꮭ","ꮮ","ꮯ","ꮰ",
      "ꮱ","ꮲ","ꮳ","ꮴ","ꮵ","ꮶ","ꮷ","ꮸ","ꮹ","ꮺ","ꮻ","ꮼ","ꮽ","ꮾ","ꮿ","ᏸ","ᏹ",
      "ᏺ","ᏻ","ᏼ","ᏽ","ᲊ","ა","ბ","გ","დ","ე","ვ","ზ","თ","ი","კ","ლ","მ",
      "ნ","ო","პ","ჟ","რ","ს","ტ","უ","ფ","ქ","ღ","ყ","შ","ჩ","ც","ძ","წ",
      "ჭ","ხ","ჯ","ჰ","ჱ","ჲ","ჳ","ჴ","ჵ","ჶ","ჷ","ჸ","ჹ","ჺ","ჽ","ჾ","ჿ",
      "ẁ","ẃ","ẅ","ẇ","ẉ","ẋ","ẍ","ẏ","ẑ","ẓ","ẕ","ß","ạ","ả","ấ","ầ","ẩ",
      "ẫ","ậ","ắ","ằ","ẳ","ẵ","ặ","ẹ","ẻ","ẽ","ế","ề","ể","ễ","ệ","ỉ","ị",
      "ọ","ỏ","ố","ồ","ổ","ỗ","ộ","ớ","ờ","ở","ỡ","ợ","ụ","ủ","ứ","ừ","ử",
      "ữ","ự","ỳ","ỵ","ỷ","ỹ","ỻ","ỽ","ỿ","ᾀ","ᾁ","ᾂ","ᾃ","ᾄ","ᾅ","ᾆ","ᾇ",
      "ᾐ","ᾑ","ᾒ","ᾓ","ᾔ","ᾕ","ᾖ","ᾗ","ᾠ","ᾡ","ᾢ","ᾣ","ᾤ","ᾥ","ᾦ","ᾧ","ᾰ",
      "ᾱ","U+1F70","U+1F71","ᾳ","U+1F72","U+1F73","U+1F74","U+1F75","ῃ","ῐ",
      "ῑ","U+1F76","U+1F77","ῠ","ῡ","U+1F7A","U+1F7B","ῥ","U+1F78","U+1F79",
      "U+1F7C","U+1F7D","ῳ","ↄ","ⓐ","ⓑ","ⓒ","ⓓ","ⓔ","ⓕ","ⓖ","ⓗ","ⓘ","ⓙ","ⓚ",
      "ⓛ","ⓜ","ⓝ","ⓞ","ⓟ","ⓠ","ⓡ","ⓢ","ⓣ","ⓤ","ⓥ","ⓦ","ⓧ","ⓨ","ⓩ","ⲁ","ⲃ",
      "ⲅ","ⲇ","ⲉ","ⲋ","ⲍ","ⲏ","ⲑ","ⲓ","ⲕ","ⲗ","ⲙ","ⲛ","ⲝ","ⲟ","ⲡ","ⲣ","ⲥ",
      "ⲧ","ⲩ","ⲫ","ⲭ","ⲯ","ⲱ","ⲳ","ⲵ","ⲷ","ⲹ","ⲻ","ⲽ","ⲿ","ⳁ","ⳃ","ⳅ","ⳇ",
      "ⳉ","ⳋ","ⳍ","ⳏ","ⳑ","ⳓ","ⳕ","ⳗ","ⳙ","ⳛ","ⳝ","ⳟ","ⳡ","ⳣ","ⳬ","ⳮ","ⳳ",
      "ꚁ","ꚃ","ꚅ","ꚇ","ꚉ","ꚋ","ꚍ","ꚏ","ꚑ","ꚓ","ꚕ","ꚗ","ꚙ","ꚛ","ꞁ","ꞃ","ꞅ",
      "ꞇ","ꞌ","U+0265","ꞑ","ꞓ","ꞗ","ꞙ","ꞛ","ꞝ","ꞟ","ꞡ","ꞣ","ꞥ","ꞧ","ꞩ",
      "U+0266","U+025C","U+0261","U+026C","U+026A","ʞ","ʇ","ʝ","U+AB53","ꞵ",
      "ꞷ","ꞹ","ꞻ","ꞽ","ꞿ","ꟁ","ꟃ","ꞔ","ʂ","ᶎ","ꟈ","ꟊ","U+0264","ꟍ","꟏","ꟑ",
      "ꟓ","ꟕ","ꟗ","ꟙ","ꟛ","ƛ","ꟶ">>

\* the characters that char::is_case_ignorable accepts, by the tables of the
\* standard library the program builds with, as far as a string of the
\* module holds them (U+0060 is one it does not): those of Unicode 14 and,
\* last in the set, the thirty that Unicode 15 to 17 added
Case_Ignorable ==
    {"'",".",":","^","¨","­","¯","´","·","¸","ʰ","ʱ","ʲ","ʳ","ʴ","ʵ",
     "ʶ","ʷ","ʸ","ʹ","ʺ","ʻ","ʼ","ʽ","ʾ","ʿ","ˀ","ˁ","˂","˃","˄","˅","ˆ",
     "ˇ","ˈ","ˉ","ˊ","ˋ","ˌ","ˍ","ˎ","ˏ","ː","ˑ","˒","˓","˔","˕","˖","˗",
     "˘","˙","˚","˛","˜","˝","˞","˟","ˠ","ˡ","ˢ","ˣ","ˤ","˥","˦","˧","˨",
     "˩","˪","˫","ˬ","˭","ˮ","˯","˰","˱","˲","˳","˴","˵","˶","˷","˸","˹",
     "˺","˻","˼","˽","˾","˿","΄","΅","·","҃","҄","҅","҆","҇","҈","҉","֑",
     "֒","֓","֔","֕","֖","֗","֘","֙","֚","֛","֜","֝","֞","֟","֠","֡","֢",
     "֣","֤","֥","֦","֧","֨","֩","֪","֫","֬","֭","֮","֯","ְ","ֱ","ֲ","ֳ",
     "ִ","ֵ","ֶ","ַ","ָ","ֹ","ֺ","ֻ","ּ","ֽ","ֿ","ׁ","ׂ","ׄ","ׅ","ׇ","״",
     "ۖ","ۗ","ۘ","ۙ","ۚ","ۛ","ۜ","۝","۟","۠","ۡ","ۢ","ۣ","ۤ","ۥ","ۦ","ۧ",
     "ۨ","۪","۫","۬","ۭ","ަ","ާ","ި","ީ","ު","ޫ","ެ","ޭ","ޮ","ޯ","ް","߫",
     "߬","߭","߮","߯","߰","߱","߲","߳","ߴ","ߵ","ߺ","߽","࢈","࢐","࢑","࢘","࢙",
     "࢚","࢛","࢜","࢝","࢞","࢟","ࣉ","࣊","࣋","࣌","࣍","࣎","࣏","࣐","࣑","࣒","࣓",
     "ࣔ","ࣕ","ࣖ","ࣗ","ࣘ","ࣙ","ࣚ","ࣛ","ࣜ","ࣝ","ࣞ","ࣟ","࣠","࣡","࣢","ࣣ","ࣤ",
     "ࣥ","ࣦ","ࣧ","ࣨ","ࣩ","࣪","࣫","࣬","࣭","࣮","࣯","ࣰ","ࣱ","ࣲ","ࣳ","ࣴ","ࣵ",
     "ࣶ","ࣷ","ࣸ","ࣹ","ࣺ","ࣻ","ࣼ","ࣽ","ࣾ","ࣿ","ঁ","়","ু","ূ","ৃ","ৄ","্",
     "ৢ","ৣ","৾","ઁ","ં","઼","ુ","ૂ","ૃ","ૄ","ૅ","ે","ૈ","્","ૢ","ૣ","ૺ",
     "ૻ","ૼ","૽","૾","૿","ஂ","ீ","்","ಁ","಼","ಿ","ೆ","ೌ","್","ೢ","ೣ","ඁ",
     "්","ි","ී","ු","ූ","ັ","ິ","ີ","ຶ","ື","ຸ","ູ","຺","ົ","ຼ","ໆ","່",
     "້","໊","໋","໌","ໍ","ྀ","ཱྀ","ྂ","ྃ","྄","྆","྇","ྍ","ྎ","ྏ","ྐ","ྑ",
     "ྒ","ྒྷ","ྔ","ྕ","ྖ","ྗ","ྙ","ྚ","ྛ","ྜ","ྜྷ","ྞ","ྟ","ྠ","ྡ","ྡྷ","ྣ",
     "ྤ","ྥ","ྦ","ྦྷ","ྨ","ྩ","ྪ","ྫ","ྫྷ","ྭ","ྮ","ྯ","ྰ","ྱ","ྲ","ླ","ྴ",
     "ྵ","ྶ","ྷ","ྸ","ྐྵ","ྺ","ྻ","ྼ","࿆","ႂ","ႅ","ႆ","ႍ","ႝ","ჼ","឴","឵",
     "ិ","ី","ឹ","ឺ","ុ","ូ","ួ","ំ","៉","៊","់","៌","៍","៎","៏","័","៑",
     "្","៓","ៗ","៝","ᢅ","ᢆ","ᢩ","ᪧ","᪰","᪱","᪲","᪳","᪴","᪵","᪶","᪷","᪸",
     "᪹","᪺","᪻","᪼","᪽","᪾","ᪿ","ᫀ","᫁","᫂","᫃","᫄","᫅","᫆","᫇","᫈","᫉",
     "᫊","᫋","ᫌ","ᫍ","ᫎ","ᮀ","ᮁ","ᮢ","ᮣ","ᮤ","ᮥ","ᮨ","ᮩ","᮫","ᮬ","ᮭ","᯦",
     "ᯨ","ᯩ","ᯭ","ᯯ","ᯰ","ᯱ","᳐","᳑","᳒","᳔","᳕","᳖","᳗","᳘","᳙","᳚","᳛",
     "᳜","᳝","᳞","᳟","᳠","᳢","᳣","᳤","᳥","᳦","᳧","᳨","᳭","᳴","᳸","᳹","ᶛ",
     "ᶜ","ᶝ","ᶞ","ᶟ","ᶠ","ᶡ","ᶢ","ᶣ","ᶤ","ᶥ","ᶦ","ᶧ","ᶨ","ᶩ","ᶪ","ᶫ","ᶬ",
     "ᶭ","ᶮ","ᶯ","ᶰ","ᶱ","ᶲ","ᶳ","ᶴ","ᶵ","ᶶ","ᶷ","ᶸ","ᶹ","ᶺ","ᶻ","ᶼ","ᶽ",
     "ᶾ","ᶿ","᷀","᷁","᷂","᷃","᷄","᷅","᷆","᷇","᷈","᷉","᷊","᷋","᷌","᷍","᷎",
     "᷏","᷐","᷑","᷒","ᷓ","ᷔ","ᷕ","ᷖ","ᷗ","ᷘ","ᷙ","ᷚ","ᷛ","ᷜ","ᷝ","ᷞ","ᷟ",
     "ᷠ","ᷡ","ᷢ","ᷣ","ᷤ","ᷥ","ᷦ","ᷧ","ᷨ","ᷩ","ᷪ","ᷫ","ᷬ","ᷭ","ᷮ","ᷯ","ᷰ",
     "ᷱ","ᷲ","ᷳ","ᷴ","᷵","᷶","᷷","᷸","᷹","᷺","᷻","᷼","᷽","᷾","᷿","᾽","᾿",
     "῀","῁","῍","῎","῏","῝","῞","῟","῭","΅","`","´","῾","ₐ","ₑ","ₒ","ₓ",
     "ₔ","ₕ","ₖ","ₗ","ₘ","ₙ","ₚ","ₛ","ₜ","⃐","⃑","⃒","⃓","⃔","⃕","⃖","⃗",
     "⃘","⃙","⃚","⃛","⃜","⃝","⃞","⃟","⃠","⃡","⃢","⃣","⃤","⃥","⃦","⃧","⃨",
     "⃩","⃪","⃫","⃬","⃭","⃮","⃯","⃰","⳯","⳰","⳱","ⷠ","ⷡ","ⷢ","ⷣ","ⷤ","ⷥ",
     "ⷦ","ⷧ","ⷨ","ⷩ","ⷪ","ⷫ","ⷬ","ⷭ","ⷮ","ⷯ","ⷰ","ⷱ","ⷲ","ⷳ","ⷴ","ⷵ","ⷶ",
     "ⷷ","ⷸ","ⷹ","ⷺ","ⷻ","ⷼ","ⷽ","ⷾ","ⷿ","゙","゚","゛","゜","ゝ","ゞ","ー","ヽ",
     "ヾ","ꓸ","ꓹ","ꓺ","ꓻ","ꓼ","ꓽ","ꚜ","ꚝ","ꚞ","ꚟ","꛰","꛱","ꞈ","꞉","꞊","ꟲ",
     "ꟳ","ꟴ","ꟸ","ꟹ","꣄","ꣅ","꣠","꣡","꣢","꣣","꣤","꣥","꣦","꣧","꣨","꣩","꣪",
     "꣫","꣬","꣭","꣮","꣯","꣰","꣱","ꣿ","ꦀ","ꦁ","ꦂ","꦳","ꦶ","ꦷ","ꦸ","ꦹ","ꦼ",
     "ꦽ","ꧏ","ꧥ","ꧦ","ꪰ","ꪲ","ꪳ","ꪴ","ꪷ","ꪸ","ꪾ","꪿","꫁","ꫝ","ꫬ","ꫭ","ꫳ",
     "ꫴ","꫶","ꯥ","ꯨ","꯭","﮲","﮳","﮴","﮵","﮶","﮷","﮸","﮹","﮺","﮻","﮼","﮽",
     "﮾","﮿","﯀","﯁","﯂","﻿","ﾞ","ﾟ","￣","￹","￺","￻",
     "ࢗ","໎","᫏","᫐","᫑","᫒","᫓","᫔","᫕","᫖","᫗","᫘","᫙","᫚","᫛",
     "᫜","᫝","᫠","᫡","᫢","᫣","᫤","᫥","᫦","᫧","᫨","᫩","᫪","᫫","꟱"}

\* the characters that char::is_cased accepts, by the same tables (U+0295
\* is cased no longer), those left out that are Case_Ignorable as well, which
\* are passed over before Cased is asked
Cased ==
    {"A","B","C","D","E","F","G","H","I","J","K","L","M","N","O","P","Q",
     "R","S","T","U","V","W","X","Y","Z","a","b","c","d","e","f","g","h",
     "i","j","k","l","m","n","o","p","q","r","s","t","u","v","w","x","y",
     "z","ª","µ","º","À","Á","Â","Ã","Ä","Å","Æ","Ç","È","É","Ê","Ë","Ì",
     "Í","Î","Ï","Ð","Ñ","Ò","Ó","Ô","Õ","Ö","Ø","Ù","Ú","Û","Ü","Ý","Þ",
     "ß","à","á","â","ã","ä","å","æ","ç","è","é","ê","ë","ì","í","î","ï",
     "ð","ñ","ò","ó","ô","õ","ö","ø","ù","ú","û","ü","ý","þ","ÿ","ƀ","Ɓ",
     "Ƃ","ƃ","Ƅ","ƅ","Ɔ","Ƈ","ƈ","Ɖ","Ɗ","Ƌ","ƌ","ƍ","Ǝ","Ə","Ɛ","Ƒ","ƒ",
     "Ɠ","Ɣ","ƕ","Ɩ","Ɨ","Ƙ","ƙ","ƚ","ƛ","Ɯ","Ɲ","ƞ","Ɵ","Ơ","ơ","Ƣ","ƣ",
     "Ƥ","ƥ","Ʀ","Ƨ","ƨ","Ʃ","ƪ","ƫ","Ƭ","ƭ","Ʈ","Ư","ư","Ʊ","Ʋ","Ƴ","ƴ",
     "Ƶ","ƶ","Ʒ","Ƹ","ƹ","ƺ","Ƽ","ƽ","ƾ","ƿ","Ǆ","ǅ","ǆ","Ǉ","ǈ","ǉ","Ǌ",
     "ǋ","ǌ","Ǎ","ǎ","Ǐ","ǐ","Ǒ","ǒ","Ǔ","ǔ","Ǖ","ǖ","Ǘ","ǘ","Ǚ","ǚ","Ǜ",
     "ǜ","ǝ","Ǟ","ǟ","Ǡ","ǡ","Ǣ","ǣ","Ǥ","ǥ","Ǧ","ǧ","Ǩ","ǩ","Ǫ","ǫ","Ǭ",
     "ǭ","Ǯ","ǯ","ǰ","Ǳ","ǲ","ǳ","Ǵ","ǵ","Ƕ","Ƿ","Ǹ","ǹ","Ǻ","ǻ","Ǽ","ǽ",
     "Ǿ","ǿ","U+0253","U+0254","U+0256","U+0257","U+0259","U+025B","U+025C",
     "U+0260","U+0261","U+0263","U+0264","U+0265","U+0266","U+0268",
     "U+0269","U+026A","U+026C","U+026F","U+0272","U+0275","ʀ","ʁ","ʂ","ʃ",
     "ʄ","ʅ","ʆ","ʇ","ʈ","ʉ","ʊ","ʋ","ʌ","ʍ","ʎ","ʏ","ʐ","ʑ","ʒ","ʓ",
     "ʖ","ʗ","ʘ","ʙ","ʚ","ʛ","ʜ","ʝ","ʞ","ʟ","ʠ","ʡ","ʢ","ʣ","ʤ","ʥ","ʦ",
     "ʧ","ʨ","ʩ","ʪ","ʫ","ʬ","ʭ","ʮ","ʯ","U+037B","U+037C","U+037D","Ά","Έ",
     "Ή","Ί","Ό","Ύ","Ώ","ΐ","Α","Β","Γ","Δ","Ε","Ζ","Η","Θ","Ι","Κ","Λ",
     "Μ","Ν","Ξ","Ο","Π","Ρ","Σ","Τ","Υ","Φ","Χ","Ψ","Ω","Ϊ","Ϋ","ά","έ",
     "ή","ί","ΰ","α","β","γ","δ","ε","ζ","η","θ","ι","κ","λ","μ","ν","ξ",
     "ο","π","ρ","ς","σ","τ","υ","φ","χ","ψ","ω","ϊ","ϋ","ό","ύ","ώ","Ϗ",
     "ϐ","ϑ","ϒ","ϓ","ϔ","ϕ","ϖ","ϗ","Ϙ","ϙ","Ϛ","ϛ","Ϝ","ϝ","Ϟ","ϟ","Ϡ",
     "ϡ","Ϣ","ϣ","Ϥ","ϥ","Ϧ","ϧ","Ϩ","ϩ","Ϫ","ϫ","Ϭ","ϭ","Ϯ","ϯ","ϰ","ϱ",
     "ϲ","ϳ","ϴ","ϵ","Ϸ","ϸ","Ϲ","Ϻ","ϻ","ϼ","Ͻ","Ͼ","Ͽ","Ҁ","ҁ","Ҋ","ҋ",
     "Ҍ","ҍ","Ҏ","ҏ","Ґ","ґ","Ғ","ғ","Ҕ","ҕ","Җ","җ","Ҙ","ҙ","Қ","қ","Ҝ",
     "ҝ","Ҟ","ҟ","Ҡ","ҡ","Ң","ң","Ҥ","ҥ","Ҧ","ҧ","Ҩ","ҩ","Ҫ","ҫ","Ҭ","ҭ",
     "Ү","ү","Ұ","ұ","Ҳ","ҳ","Ҵ","ҵ","Ҷ","ҷ","Ҹ","ҹ","Һ","һ","Ҽ","ҽ","Ҿ",
     "ҿ","Ӏ","Ӂ","ӂ","Ӄ","ӄ","Ӆ","ӆ","Ӈ","ӈ","Ӊ","ӊ","Ӌ","ӌ","Ӎ","ӎ","ӏ",
     "Ӑ","ӑ","Ӓ","ӓ","Ӕ","ӕ","Ӗ","ӗ","Ә","ә","Ӛ","ӛ","Ӝ","ӝ","Ӟ","ӟ","Ӡ",
     "ӡ","Ӣ","ӣ","Ӥ","ӥ","Ӧ","ӧ","Ө","ө","Ӫ","ӫ","Ӭ","ӭ","Ӯ","ӯ","Ӱ","ӱ",
     "Ӳ","ӳ","Ӵ","ӵ","Ӷ","ӷ","Ӹ","ӹ","Ӻ","ӻ","Ӽ","ӽ","Ӿ","ӿ","ր","ց","ւ",
     "փ","ք","օ","ֆ","և","ֈ","Ⴀ","Ⴁ","Ⴂ","Ⴃ","Ⴄ","Ⴅ","Ⴆ","Ⴇ","Ⴈ","Ⴉ","Ⴊ",
     "Ⴋ","Ⴌ","Ⴍ","Ⴎ","Ⴏ","Ⴐ","Ⴑ","Ⴒ","Ⴓ","Ⴔ","Ⴕ","Ⴖ","Ⴗ","Ⴘ","Ⴙ","Ⴚ","Ⴛ",
     "Ⴜ","Ⴝ","Ⴞ","Ⴟ","Ⴠ","Ⴡ","Ⴢ","Ⴣ","Ⴤ","Ⴥ","Ⴧ","Ⴭ","ა","ბ","გ","დ","ე",
     "ვ","ზ","თ","ი","კ","ლ","მ","ნ","ო","პ","ჟ","რ","ს","ტ","უ","ფ","ქ",
     "ღ","ყ","შ","ჩ","ც","ძ","წ","ჭ","ხ","ჯ","ჰ","ჱ","ჲ","ჳ","ჴ","ჵ","ჶ",
     "ჷ","ჸ","ჹ","ჺ","ჽ","ჾ","ჿ","Ꭰ","Ꭱ","Ꭲ","Ꭳ","Ꭴ","Ꭵ","Ꭶ","Ꭷ","Ꭸ","Ꭹ",
     "Ꭺ","Ꭻ","Ꭼ","Ꭽ","Ꭾ","Ꭿ","Ꮀ","Ꮁ","Ꮂ","Ꮃ","Ꮄ","Ꮅ","Ꮆ","Ꮇ","Ꮈ","Ꮉ","Ꮊ",
     "Ꮋ","Ꮌ","Ꮍ","Ꮎ","Ꮏ","Ꮐ","Ꮑ","Ꮒ","Ꮓ","Ꮔ","Ꮕ","Ꮖ","Ꮗ","Ꮘ","Ꮙ","Ꮚ","Ꮛ",
     "Ꮜ","Ꮝ","Ꮞ","Ꮟ","Ꮠ","Ꮡ","Ꮢ","Ꮣ","Ꮤ","Ꮥ","Ꮦ","Ꮧ","Ꮨ","Ꮩ","Ꮪ","Ꮫ","Ꮬ",
     "Ꮭ","Ꮮ","Ꮯ","Ꮰ","Ꮱ","Ꮲ","Ꮳ","Ꮴ","Ꮵ","Ꮶ","Ꮷ","Ꮸ","Ꮹ","Ꮺ","Ꮻ","Ꮼ","Ꮽ",
     "Ꮾ","Ꮿ","Ᏸ","Ᏹ","Ᏺ","Ᏻ","Ᏼ","Ᏽ","ᏸ","ᏹ","ᏺ","ᏻ","ᏼ","ᏽ","ᲀ","ᲁ","ᲂ",
     "ᲃ","ᲄ","ᲅ","ᲆ","ᲇ","ᲈ","Ᲊ","ᲊ","Ა","Ბ","Გ","Დ","Ე","Ვ","Ზ","Თ","Ი",
     "Კ","Ლ","Მ","Ნ","Ო","Პ","Ჟ","Რ","Ს","Ტ","Უ","Ფ","Ქ","Ღ","Ყ","Შ","Ჩ",
     "Ც","Ძ","Წ","Ჭ","Ხ","Ჯ","Ჰ","Ჱ","Ჲ","Ჳ","Ჴ","Ჵ","Ჶ","Ჷ","Ჸ","Ჹ","Ჺ",
     "Ჽ","Ჾ","Ჿ","ᶀ","ᶁ","ᶂ","ᶃ","ᶄ","ᶅ","ᶆ","ᶇ","ᶈ","ᶉ","ᶊ","ᶋ","ᶌ","ᶍ",
     "ᶎ","ᶏ","ᶐ","ᶑ","ᶒ","ᶓ","ᶔ","ᶕ","ᶖ","ᶗ","ᶘ","ᶙ","ᶚ","Ẁ","ẁ","Ẃ","ẃ",
     "Ẅ","ẅ","Ẇ","ẇ","Ẉ","ẉ","Ẋ","ẋ","Ẍ","ẍ","Ẏ","ẏ","Ẑ","ẑ","Ẓ","ẓ","Ẕ",
     "ẕ","ẖ","ẗ","ẘ","ẙ","ẚ","ẛ","ẜ","ẝ","ẞ","ẟ","Ạ","ạ","Ả","ả","Ấ","ấ",
     "Ầ","ầ","Ẩ","ẩ","Ẫ","ẫ","Ậ","ậ","Ắ","ắ","Ằ","ằ","Ẳ","ẳ","Ẵ","ẵ","Ặ",
     "ặ","Ẹ","ẹ","Ẻ","ẻ","Ẽ","ẽ","Ế","ế","Ề","ề","Ể","ể","Ễ","ễ","Ệ","ệ",
     "Ỉ","ỉ","Ị","ị","Ọ","ọ","Ỏ","ỏ","Ố","ố","Ồ","ồ","Ổ","ổ","Ỗ","ỗ","Ộ",
     "ộ","Ớ","ớ","Ờ","ờ","Ở","ở","Ỡ","ỡ","Ợ","ợ","Ụ","ụ","Ủ","ủ","Ứ","ứ",
     "Ừ","ừ","Ử","ử","Ữ","ữ","Ự","ự","Ỳ","ỳ","Ỵ","ỵ","Ỷ","ỷ","Ỹ","ỹ","Ỻ",
     "ỻ","Ỽ","ỽ","Ỿ","ỿ","U+1F70","U+1F71","U+1F72","U+1F73","U+1F74",
     "U+1F75","U+1F76","U+1F77","U+1F78","U+1F79","U+1F7A","U+1F7B",
     "U+1F7C","U+1F7D","ᾀ","ᾁ","ᾂ","ᾃ","ᾄ","ᾅ","ᾆ","ᾇ","ᾈ","ᾉ","ᾊ","ᾋ","ᾌ",
     "ᾍ","ᾎ","ᾏ","ᾐ","ᾑ","ᾒ","ᾓ","ᾔ","ᾕ","ᾖ","ᾗ","ᾘ","ᾙ","ᾚ","ᾛ","ᾜ","ᾝ",
     "ᾞ","ᾟ","ᾠ","ᾡ","ᾢ","ᾣ","ᾤ","ᾥ","ᾦ","ᾧ","ᾨ","ᾩ","ᾪ","ᾫ","ᾬ","ᾭ","ᾮ",
     "ᾯ","ᾰ","ᾱ","ᾲ","ᾳ","ᾴ","ᾶ","ᾷ","Ᾰ","Ᾱ","Ὰ","Ά","ᾼ","ι","ῂ","ῃ","ῄ",
     "ῆ","ῇ","Ὲ","Έ","Ὴ","Ή","ῌ","ῐ","ῑ","ῒ","ΐ","ῖ","ῗ","Ῐ","Ῑ","Ὶ","Ί",
     "ῠ","ῡ","ῢ","ΰ","ῤ","ῥ","ῦ","ῧ","Ῠ","Ῡ","Ὺ","Ύ","Ῥ","ῲ","ῳ","ῴ","ῶ",
     "ῷ","Ὸ","Ό","Ὼ","Ώ","ῼ","Ↄ","ↄ","Ⓐ","Ⓑ","Ⓒ","Ⓓ","Ⓔ","Ⓕ","Ⓖ","Ⓗ","Ⓘ",
     "Ⓙ","Ⓚ","Ⓛ","Ⓜ","Ⓝ","Ⓞ","Ⓟ","Ⓠ","Ⓡ","Ⓢ","Ⓣ","Ⓤ","Ⓥ","Ⓦ","Ⓧ","Ⓨ","Ⓩ",
     "ⓐ","ⓑ","ⓒ","ⓓ","ⓔ","ⓕ","ⓖ","ⓗ","ⓘ","ⓙ","ⓚ","ⓛ","ⓜ","ⓝ","ⓞ","ⓟ","ⓠ",
     "ⓡ","ⓢ","ⓣ","ⓤ","ⓥ","ⓦ","ⓧ","ⓨ","ⓩ","Ⲁ","ⲁ","Ⲃ","ⲃ","Ⲅ","ⲅ","Ⲇ","ⲇ",
     "Ⲉ","ⲉ","Ⲋ","ⲋ","Ⲍ","ⲍ","Ⲏ","ⲏ","Ⲑ","ⲑ","Ⲓ","ⲓ","Ⲕ","ⲕ","Ⲗ","ⲗ","Ⲙ",
     "ⲙ","Ⲛ","ⲛ","Ⲝ","ⲝ","Ⲟ","ⲟ","Ⲡ","ⲡ","Ⲣ","ⲣ","Ⲥ","ⲥ","Ⲧ","ⲧ","Ⲩ","ⲩ",
     "Ⲫ","ⲫ","Ⲭ","ⲭ","Ⲯ","ⲯ","Ⲱ","ⲱ","Ⲳ","ⲳ","Ⲵ","ⲵ","Ⲷ","ⲷ","Ⲹ","ⲹ","Ⲻ",
     "ⲻ","Ⲽ","ⲽ","Ⲿ","ⲿ","Ⳁ","ⳁ","Ⳃ","ⳃ","Ⳅ","ⳅ","Ⳇ","ⳇ","Ⳉ","ⳉ","Ⳋ","ⳋ",
     "Ⳍ","ⳍ","Ⳏ","ⳏ","Ⳑ","ⳑ","Ⳓ","ⳓ","Ⳕ","ⳕ","Ⳗ","ⳗ","Ⳙ","ⳙ","Ⳛ","ⳛ","Ⳝ",
     "ⳝ","Ⳟ","ⳟ","Ⳡ","ⳡ","Ⳣ","ⳣ","ⳤ","Ⳬ","ⳬ","Ⳮ","ⳮ","Ⳳ","ⳳ","U+2D00",
     "U+2D01","U+2D02","U+2D03","U+2D04","U+2D05","U+2D06","U+2D07",
     "U+2D08","U+2D09","U+2D0A","U+2D0B","U+2D0C","U+2D0D","U+2D0E",
     "U+2D0F","U+2D10","U+2D11","U+2D12","U+2D13","U+2D14","U+2D15",
     "U+2D16","U+2D17","U+2D18","U+2D19","U+2D1A","U+2D1B","U+2D1C",
     "U+2D1D","U+2D1E","U+2D1F","U+2D20","U+2D21","U+2D22","U+2D23",
     "U+2D24","U+2D25","U+2D27","U+2D2D","Ꚁ","ꚁ","Ꚃ","ꚃ","Ꚅ","ꚅ","Ꚇ","ꚇ",
     "Ꚉ","ꚉ","Ꚋ","ꚋ","Ꚍ","ꚍ","Ꚏ","ꚏ","Ꚑ","ꚑ","Ꚓ","ꚓ","Ꚕ","ꚕ","Ꚗ","ꚗ","Ꚙ",
     "ꚙ","Ꚛ","ꚛ","Ꞁ","ꞁ","Ꞃ","ꞃ","Ꞅ","ꞅ","Ꞇ","ꞇ","Ꞌ","ꞌ","Ɥ","ꞎ","Ꞑ","ꞑ",
     "Ꞓ","ꞓ","ꞔ","ꞕ","Ꞗ","ꞗ","Ꞙ","ꞙ","Ꞛ","ꞛ","Ꞝ","ꞝ","Ꞟ","ꞟ","Ꞡ","ꞡ","Ꞣ",
     "ꞣ","Ꞥ","ꞥ","Ꞧ","ꞧ","Ꞩ","ꞩ","Ɦ","Ɜ","Ɡ","Ɬ","Ɪ","ꞯ","Ʞ","Ʇ","Ʝ","Ꭓ",
     "Ꞵ","ꞵ","Ꞷ","ꞷ","Ꞹ","ꞹ","Ꞻ","ꞻ","Ꞽ","ꞽ","Ꞿ","ꞿ","Ꟁ","ꟁ","Ꟃ","ꟃ","Ꞔ",
     "Ʂ","Ᶎ","Ꟈ","ꟈ","Ꟊ","ꟊ","Ɤ","Ꟍ","ꟍ","꟎","꟏","Ꟑ","ꟑ","꟒","ꟓ","꟔","ꟕ",
     "Ꟗ","ꟗ","Ꟙ","ꟙ","Ꟛ","ꟛ","Ƛ","Ꟶ","ꟶ","ꟺ","U+AB53","U+AB70","U+AB71",
     "U+AB72","U+AB73","U+AB74","U+AB75","U+AB76","U+AB77","U+AB78",
     "U+AB79","U+AB7A","U+AB7B","U+AB7C","U+AB7D","U+AB7E","U+AB7F","ꮀ","ꮁ",
     "ꮂ","ꮃ","ꮄ","ꮅ","ꮆ","ꮇ","ꮈ","ꮉ","ꮊ","ꮋ","ꮌ","ꮍ","ꮎ","ꮏ","ꮐ","ꮑ","ꮒ",
     "ꮓ","ꮔ","ꮕ","ꮖ","ꮗ","ꮘ","ꮙ","ꮚ","ꮛ","ꮜ","ꮝ","ꮞ","ꮟ","ꮠ","ꮡ","ꮢ","ꮣ",
     "ꮤ","ꮥ","ꮦ","ꮧ","ꮨ","ꮩ","ꮪ","ꮫ","ꮬ","ꮭ","ꮮ","ꮯ","ꮰ","ꮱ","ꮲ","ꮳ","ꮴ",
     "ꮵ","ꮶ","ꮷ","ꮸ","ꮹ","ꮺ","ꮻ","ꮼ","ꮽ","ꮾ","ꮿ"}

DigitChars == <<"0","1","2","3","4","5","6","7","8","9">>

\* is_whitespace that knows the space only
IsWhitespace_space_only(c) == c = " "

\* char::is_whitespace: U+0009 to U+000D, the space, U+0085, U+00A0 and
\* U+1680
IsWhitespace(c) ==
    c \in {"\t", "\n", "", "\f", "\r", " ", "", " ", " "}

IsDigit(c) == \E i \in 1..10 : DigitChars[i] = c

DigitVal(c) == (CHOOSE i \in 1..10 : DigitChars[i] = c) - 1

UpperSet == {UpperChars[i] : i \in 1..Len(UpperChars)}

\* the lower case of each character of UpperSet
LowerOf ==
    [c \in UpperSet |->
        LowerChars[CHOOSE i \in 1..Len(UpperChars) : UpperChars[i] = c]]

\* char::to_lowercase (its one result of two characters is that of U+0130,
\* which no string of the module holds)
to_lowercase_char(c) == IF c \in UpperSet THEN LowerOf[c] ELSE c

\* case_ignorable_then_cased of str::to_lowercase on the characters of s
\* from the place i on, forwards (step 1) or backwards (step -1): the first
\* character that is not Case_Ignorable is there and is Cased
RECURSIVE case_ignorable_then_cased(_, _, _)
case_ignorable_then_cased(s, i, step) ==
    IF i < 1 \/ i > Len(s) THEN FALSE
    ELSE IF s[i] \in Case_Ignorable
    THEN case_ignorable_then_cased(s, i + step, step)
    ELSE s[i] \in Cased

\* map_uppercase_sigma of str::to_lowercase: the sigma at the place i of s is
\* the final sigma when it ends a word, a cased letter before it and none
\* after it
map_uppercase_sigma(s, i) ==
    IF /\ case_ignorable_then_cased(s, i - 1, -1)
       /\ ~case_ignorable_then_cased(s, i + 1, 1)
    THEN "ς" ELSE "σ"

\* str::to_lowercase: each character by char::to_lowercase, but the capital
\* sigma by map_uppercase_sigma
to_lowercase(s) ==
    [i \in 1..Len(s) |->
        IF s[i] = "Σ" THEN map_uppercase_sigma(s, i)
        ELSE to_lowercase_char(s[i])]

RECURSIVE TrimStart(_)
TrimStart(s) ==
    IF s = <<>> THEN s
    ELSE IF IsWhitespace(Head(s)) THEN TrimStart(Tail(s)) ELSE s

RECURSIVE TrimEnd(_)
TrimEnd(s) ==
    IF s = <<>> THEN s
    ELSE IF IsWhitespace(s[Len(s)]) THEN TrimEnd(SubSeq(s, 1, Len(s) - 1)) ELSE s

\* str::trim
trim(s) == TrimEnd(TrimStart(s))

\* str::split(' '): the pieces between single space characters, empty ones kept
RECURSIVE SplitFrom(_, _, _)
SplitFrom(s, i, cur) ==
    IF i > Len(s) THEN <<cur>>
    ELSE IF s[i] = " " THEN <<cur>> \o SplitFrom(s, i + 1, <<>>)
    ELSE SplitFrom(s, i + 1, Append(cur, s[i]))

\* Forth::lex
lex(input) == SplitFrom(input, 1, <<>>)

(***************************************************************************)
(* Numbers: an f64 as a fraction n/d in lowest terms.  With d a power of   *)
(* two it is the f64 n/d; with any other d > 0 it is the f64 nearest to    *)
(* n/d (round to nearest, ties to even)                                    *)
(***************************************************************************)
Abs(x) == IF x < 0 THEN -x ELSE x

RECURSIVE GCD(_, _)
GCD(a, b) == IF b = 0 THEN a ELSE GCD(b, a % b)

\* the fraction n/d (d # 0) in lowest terms with a positive denominator
Rat(n, d) ==
    LET g == GCD(Abs(n), Abs(d))
        s == IF d < 0 THEN -1 ELSE 1
    IN  [n |-> (s * n) \div g, d |-> (s * d) \div g]

IntNum(k) == [n |-> k, d |-> 1]

Zero == IntNum(0)

\* f64::INFINITY, f64::NEG_INFINITY and f64::NAN
Infinity == [n |-> 1, d |-> 0]
NegInfinity == [n |-> -1, d |-> 0]
NaN == [n |-> 0, d |-> 0]

\* an f64 the model has no fraction for: the result of arithmetic on an
\* operand that is not exact, or a literal too long for the model's integers
Unknown == [n |-> 0, d |-> -1]

RECURSIVE IsPow2(_)
IsPow2(d) == d = 1 \/ (d > 1 /\ d % 2 = 0 /\ IsPow2(d \div 2))

\* the fraction is the f64 itself and not a rounding of it
Exact(r) == r.d > 0 /\ IsPow2(r.d)

\* f64 unary minus
Neg(r) ==
    IF r.d > 0 THEN Rat(-r.n, r.d)
    ELSE IF r = Infinity THEN NegInfinity
    ELSE IF r = NegInfinity THEN Infinity
    ELSE r

BothExact(a, b) == Exact(a) /\ Exact(b)

\* f64 `+`, `-`, `*`: exact on exact operands within the model's integers
RAdd(a, b) ==
    IF BothExact(a, b) THEN Rat(a.n * b.d + b.n * a.d, a.d * b.d) ELSE Unknown
RSub(a, b) ==
    IF BothExact(a, b) THEN Rat(a.n * b.d - b.n * a.d, a.d * b.d) ELSE Unknown
RMul(a, b) ==
    IF BothExact(a, b) THEN Rat(a.n * b.n, a.d * b.d) ELSE Unknown
\* f64 `/`, b # Zero: the f64 nearest to the quotient of exact operands
RDiv(a, b) ==
    IF BothExact(a, b) THEN Rat(a.n * b.d, a.d * b.n) ELSE Unknown

\* the integer part of n/d (d > 0), rounded towards zero
Trunc(n, d) == IF n >= 0 THEN n \div d ELSE -((-n) \div d)

\* a - b * t for the integer t
RemainderOf(a, b, t) == Rat(a.n * b.d - t * b.n * a.d, a.d * b.d)

\* f64 `%`: the remainder of a/b with the sign of a, which is exact on exact
\* operands; b # Zero
RRem(a, b) ==
    IF BothExact(a, b)
    THEN RemainderOf(a, b, Trunc(Rat(a.n * b.d, a.d * b.n).n,
                                 Rat(a.n * b.d, a.d * b.n).d))
    ELSE Unknown

RECURSIVE Pow(_, _)
Pow(b, e) == IF e = 0 THEN 1 ELSE b * Pow(b, e - 1)

\* the fractions the model follows: exact in an f64 and within the bounds
Representable(r) ==
    /\ \E e \in 0..MaxDenExp : r.d = Pow(2, e)
    /\ Abs(r.n) <= MaxAbs * r.d

(***************************************************************************)
(* str::parse::<f64>: [sign] digits [. digits] [e [sign] digits] with a    *)
(* digit before the exponent, or [sign] inf | infinity | nan in any case   *)
(***************************************************************************)
RECURSIVE DigitsValue(_)
DigitsValue(s) ==
    IF s = <<>> THEN 0
    ELSE 10 * DigitsValue(SubSeq(s, 1, Len(s) - 1)) + DigitVal(s[Len(s)])

AllDigits(s) == \A i \in 1..Len(s) : IsDigit(s[i])

DotPositions(s) == {i \in 1..Len(s) : s[i] = "."}

ExponentPositions(s) == {i \in 1..Len(s) : s[i] \in {"e", "E"}}

RECURSIVE StripLeadingZeros(_)
StripLeadingZeros(s) ==
    IF s # <<>> /\ Head(s) = "0" THEN StripLeadingZeros(Tail(s)) ELSE s

RECURSIVE StripTrailingZeros(_)
StripTrailingZeros(s) ==
    IF s # <<>> /\ s[Len(s)] = "0"
    THEN StripTrailingZeros(SubSeq(s, 1, Len(s) - 1)) ELSE s

\* the f64 nearest to digits * 10^x: a fraction when it fits the integers of
\* the model (numerator and denominator below 10^9); huge says that the
\* exponent itself does not fit them
Scaled(digits, x, huge) ==
    IF digits = <<>> THEN Zero
    ELSE IF huge \/ Len(digits) > 9 THEN Unknown
    ELSE IF x >= 0
    THEN IF Len(digits) + x <= 9
         THEN IntNum(DigitsValue(digits) * Pow(10, x)) ELSE Unknown
    ELSE IF -x <= 9
         THEN Rat(DigitsValue(digits), Pow(10, -x)) ELSE Unknown

\* the value of the digits ip before the point and fpt after it, trailing
\* zeros left out, e being the exponent
ParseDigits(ip, fpt, e) ==
    [ok |-> TRUE,
     val |-> Scaled(StripLeadingZeros(ip \o fpt), e.val - Len(fpt), e.huge)]

\* ip and fp are what stands before and after the point: digits only, and
\* one digit at least
ParseFraction(ip, fp, e) ==
    IF AllDigits(ip) /\ AllDigits(fp) /\ Len(ip) + Len(fp) > 0
    THEN ParseDigits(ip, StripTrailingZeros(fp), e)
    ELSE [ok |-> FALSE]

FirstOf(S) == CHOOSE i \in S : \A j \in S : i <= j

ParseAtDots(s, e, dots) ==
    IF Cardinality(dots) > 1 THEN [ok |-> FALSE]
    ELSE ParseFraction(IF dots = {} THEN s ELSE SubSeq(s, 1, FirstOf(dots) - 1),
                       IF dots = {} THEN <<>>
                       ELSE SubSeq(s, FirstOf(dots) + 1, Len(s)),
                       e)

\* the digits and the point before the exponent, e being the exponent
ParseDecimal(s, e) == ParseAtDots(s, e, DotPositions(s))

\* the exponent of the digits sig, leading zeros left out: its value when it
\* has nine digits at most, and huge otherwise
ExponentValue(neg, sig) ==
    [ok |-> TRUE,
     huge |-> Len(sig) > 9,
     val |-> IF Len(sig) > 9 THEN 0
             ELSE IF neg THEN -DigitsValue(sig) ELSE DigitsValue(sig)]

ExponentDigits(neg, ds) ==
    IF ds # <<>> /\ AllDigits(ds)
    THEN ExponentValue(neg, StripLeadingZeros(ds))
    ELSE [ok |-> FALSE]

\* the exponent after `e`: [sign] digits
ParseExponent(s) ==
    ExponentDigits(s # <<>> /\ s[1] = "-",
                   IF s # <<>> /\ s[1] \in {"+", "-"} THEN Tail(s) ELSE s)

\* m is what stands before `e` and e the result of ParseExponent
ParseMantissa(m, e) ==
    IF e.ok THEN ParseDecimal(m, e) ELSE [ok |-> FALSE]

\* low is s in lower case and es the places of `e` and `E` in s
ParseSpelled(s, low, es) ==
    IF low \in {<<"i","n","f">>, <<"i","n","f","i","n","i","t","y">>}
    THEN [ok |-> TRUE, val |-> Infinity]
    ELSE IF low = <<"n","a","n">> THEN [ok |-> TRUE, val |-> NaN]
    ELSE ParseMantissa(IF es = {} THEN s ELSE SubSeq(s, 1, FirstOf(es) - 1),
                       IF es = {} THEN [ok |-> TRUE, huge |-> FALSE, val |-> 0]
                       ELSE ParseExponent(SubSeq(s, FirstOf(es) + 1, Len(s))))

ParseUnsigned(s) == ParseSpelled(s, to_lowercase(s), ExponentPositions(s))

\* u is the result of ParseUnsigned for what follows the sign
ApplySign(neg, u) ==
    IF u.ok /\ neg THEN [ok |-> TRUE, val |-> Neg(u.val)] ELSE u

parse(s) ==
    ApplySign(s # <<>> /\ s[1] = "-",
              ParseUnsigned(IF s # <<>> /\ s[1] \in {"+", "-"} THEN Tail(s) ELSE s))

(***************************************************************************)
(* Errors, optional values, tokens                                         *)
(***************************************************************************)
NoErr == [kind |-> "None"]
DivisionByZero == [kind |-> "DivisionByZero"]
StackUnderflow == [kind |-> "StackUnderflow"]
UnknownWord(w) == [kind |-> "UnknownWord", payload |-> w]
InvalidWord(d) == [kind |-> "InvalidWord", payload |-> d]
Unterminated == [kind |-> "Unterminated"]
UserQuit == [kind |-> "UserQuit"]
\* no error of the program: the divisor is Unknown, `n2 == 0.0` cannot be
\* decided, and the model does not follow the evaluation
Undecided == [kind |-> "Undecided"]
\* no error of the program: the process is ended inside the call (the
\* allocator aborts it, "memory allocation of N bytes failed"), and the call
\* returns nothing
Aborted == [kind |-> "Aborted"]

None == [some |-> FALSE]
Some(v) == [some |-> TRUE, v |-> v]

Number(v) == [type |-> "Number", num |-> v]
Builtin(b) == [type |-> "Builtin", builtin |-> b]
Word(w) == [type |-> "Word", word |-> w]
Definition(ts) == [type |-> "Definition", body |-> ts]
UserDefined(ts) == [type |-> "UserDefined", body |-> ts]

\* enum ForthBuiltin
ForthBuiltin ==
    {"Add", "Subtract", "Multiply", "Divide", "Bye", "CR", "Display", "Drop",
     "Dup", "TwoDrop", "TwoDup", "Emit", "Mod", "SlashMod", "Over", "TwoOver",
     "Rot", "Show", "Space", "Spaces", "Swap", "TwoSwap"}

\* the match arms of ForthBuiltin::try_from
BuiltinTable ==
    { <<<<".">>, "Display">>,
      <<<<"+">>, "Add">>,
      <<<<"-">>, "Subtract">>,
      <<<<"*">>, "Multiply">>,
      <<<<"/">>, "Divide">>,
      <<<<"b","y","e">>, "Bye">>,
      <<<<"q","u","i","t">>, "Bye">>,
      <<<<"c","r">>, "CR">>,
      <<<<"d","u","p">>, "Dup">>,
      <<<<"2","d","u","p">>, "TwoDup">>,
      <<<<"d","r","o","p">>, "Drop">>,
      <<<<"2","d","r","o","p">>, "TwoDrop">>,
      <<<<"e","m","i","t">>, "Emit">>,
      <<<<"/","m","o","d">>, "SlashMod">>,
      <<<<"m","o","d">>, "Mod">>,
      <<<<"o","v","e","r">>, "Over">>,
      <<<<"2","o","v","e","r">>, "TwoOver">>,
      <<<<"r","o","t">>, "Rot">>,
      <<<<".","s">>, "Show">>,
      <<<<"s","p","a","c","e">>, "Space">>,
      <<<<"s","p","a","c","e","s">>, "Spaces">>,
      <<<<"s","w","a","p">>, "Swap">>,
      <<<<"2","s","w","a","p">>, "TwoSwap">> }

\* ForthBuiltin::try_from
try_from(input) ==
    IF \E e \in BuiltinTable : e[1] = input
    THEN [ok |-> TRUE, builtin |-> (CHOOSE e \in BuiltinTable : e[1] = input)[2]]
    ELSE [ok |-> FALSE, err |-> UnknownWord(input)]

(***************************************************************************)
(* State: the dictionary and the stack                                     *)
(***************************************************************************)
\* State::new
NewState == [dictionary |-> <<>>, stack |-> <<>>]

\* define_word that keeps the entry a name already has
define_word_keep_first(st, word, value) ==
    LET k == to_lowercase(word)
    IN  [st EXCEPT !.dictionary =
            [x \in (DOMAIN st.dictionary) \cup {k} |->
                IF x \in DOMAIN st.dictionary THEN st.dictionary[x] ELSE value]]

\* State::define_word
define_word(st, word, value) ==
    LET k == to_lowercase(word)
    IN  [st EXCEPT !.dictionary =
            [x \in (DOMAIN st.dictionary) \cup {k} |->
                IF x = k THEN value ELSE st.dictionary[x]]]

\* State::lookup
lookup(st, word) ==
    LET k == to_lowercase(word)
    IN  IF k \in DOMAIN st.dictionary THEN Some(st.dictionary[k]) ELSE None

\* State::top
top(st) ==
    IF Len(st.stack) > 0
    THEN [ok |-> TRUE, v |-> st.stack[Len(st.stack)], st |-> st]
    ELSE [ok |-> FALSE, st |-> st]

\* State::push
push(st, value) == [st EXCEPT !.stack = Append(st.stack, value)]

\* Vec::pop on the stack
VecPop(st) ==
    IF Len(st.stack) > 0
    THEN [some |-> TRUE, v |-> st.stack[Len(st.stack)],
          st |-> [st EXCEPT !.stack = SubSeq(st.stack, 1, Len(st.stack) - 1)]]
    ELSE [some |-> FALSE, st |-> st]

\* State::pop
pop(st) ==
    LET p == VecPop(st)
    IN  IF p.some THEN [ok |-> TRUE, v |-> p.v, st |-> p.st]
        ELSE [ok |-> FALSE, st |-> p.st]

\* pop2 that takes a missing second value for 0
pop2_lenient(st) ==
    LET p1 == VecPop(st)
        p2 == VecPop(p1.st)
    IN  IF p1.some
        THEN [ok |-> TRUE, v1 |-> p1.v, v2 |-> IF p2.some THEN p2.v ELSE Zero, st |-> p2.st]
        ELSE [ok |-> FALSE, st |-> p2.st]

\* State::pop2: both Vec::pop calls are made before the pair is matched
pop2(st) ==
    LET p1 == VecPop(st)
        p2 == VecPop(p1.st)
    IN  IF p1.some /\ p2.some
        THEN [ok |-> TRUE, v1 |-> p1.v, v2 |-> p2.v, st |-> p2.st]
        ELSE [ok |-> FALSE, st |-> p2.st]

\* push of several values, first to last
RECURSIVE pushAll(_, _)
pushAll(st, vs) == IF vs = <<>> THEN st ELSE pushAll(push(st, Head(vs)), Tail(vs))

(***************************************************************************)
(* Results of an evaluation step: the state it leaves, and Ok(res) or      *)
(* Err(err)                                                                *)
(***************************************************************************)
Ok(st, res) == [st |-> st, err |-> NoErr, res |-> res]
Err(st, e) == [st |-> st, err |-> e, res |-> None]
IsOk(r) == r.err = NoErr

\* the two-operand arithmetic of Add, Subtract, Multiply, Divide and Mod
Arith(b, n1, n2) ==
    CASE b = "Add" -> RAdd(n1, n2)
      [] b = "Subtract" -> RSub(n1, n2)
      [] b = "Multiply" -> RMul(n1, n2)
      [] b = "Divide" -> RDiv(n1, n2)
      [] b = "Mod" -> RRem(n1, n2)

\* the arms of ForthBuiltin::eval that pop twice two values: a is the first
\* pop2 and a2 the second
BuiltinTwoPairs(b, a, a2) ==
    IF ~a.ok THEN Err(a.st, StackUnderflow)
    ELSE IF ~a2.ok THEN Err(a2.st, StackUnderflow)
    ELSE IF b = "TwoOver"
    \* (num4, num3) = a.v1, a.v2; (num2, num1) = a2.v1, a2.v2
    THEN Ok(pushAll(a2.st, <<a2.v2, a2.v1, a.v2, a.v1, a2.v2, a2.v1>>), None)
    \* TwoSwap: (n4, n3) = a.v1, a.v2; (n2, n1) = a2.v1, a2.v2
    ELSE Ok(pushAll(a2.st, <<a.v2, a.v1, a2.v2, a2.v1>>), None)

\* BuiltinRot that rotates the other way: a b c -> c a b
BuiltinRot_backwards(a, a1) ==
    IF ~a.ok THEN Err(a.st, StackUnderflow)
    ELSE IF ~a1.ok THEN Err(a1.st, StackUnderflow)
    ELSE Ok(pushAll(a1.st, <<a.v1, a1.v, a.v2>>), None)

\* the arm Rot of ForthBuiltin::eval: a is its pop2 and a1 its pop
BuiltinRot(a, a1) ==
    \* (num3, num2) = a.v1, a.v2; num1 = a1.v
    IF ~a.ok THEN Err(a.st, StackUnderflow)
    ELSE IF ~a1.ok THEN Err(a1.st, StackUnderflow)
    ELSE Ok(pushAll(a1.st, <<a.v2, a.v1, a1.v>>), None)

\* BuiltinPair whose zero divisor is reported as a stack underflow
BuiltinPairWrongError(b, a) ==
    IF ~a.ok THEN Err(a.st, StackUnderflow)
    ELSE CASE b \in {"Add", "Subtract", "Multiply"} ->
                Ok(push(a.st, Arith(b, a.v2, a.v1)), None)
           [] b \in {"Divide", "Mod"} ->
                (IF a.v1 = Unknown THEN Err(a.st, Undecided)
                 ELSE IF a.v1 = Zero THEN Err(a.st, StackUnderflow)
                 ELSE Ok(push(a.st, Arith(b, a.v2, a.v1)), None))
           [] b = "SlashMod" ->
                (IF a.v1 = Unknown THEN Err(a.st, Undecided)
                 ELSE IF a.v1 = Zero THEN Err(a.st, StackUnderflow)
                 ELSE Ok(pushAll(a.st, <<RRem(a.v2, a.v1), RDiv(a.v2, a.v1)>>), None))
           [] b = "TwoDrop" -> Ok(a.st, None)
           [] b = "TwoDup" -> Ok(pushAll(a.st, <<a.v2, a.v1, a.v2, a.v1>>), None)
           [] b = "Over" -> Ok(pushAll(a.st, <<a.v2, a.v1, a.v2>>), None)
           [] b = "Swap" -> Ok(pushAll(a.st, <<a.v1, a.v2>>), None)
           [] b = "Rot" -> BuiltinRot(a, pop(a.st))
           [] b \in {"TwoOver", "TwoSwap"} -> BuiltinTwoPairs(b, a, pop2(a.st))

\* BuiltinPair whose /mod pushes the quotient before the remainder
BuiltinPair_quotient_first(b, a) ==
    IF ~a.ok THEN Err(a.st, StackUnderflow)
    ELSE CASE b \in {"Add", "Subtract", "Multiply"} ->
                Ok(push(a.st, Arith(b, a.v2, a.v1)), None)
           [] b \in {"Divide", "Mod"} ->
                (IF a.v1 = Unknown THEN Err(a.st, Undecided)
                 ELSE IF a.v1 = Zero THEN Err(a.st, DivisionByZero)
                 ELSE Ok(push(a.st, Arith(b, a.v2, a.v1)), None))
           [] b = "SlashMod" ->
                (IF a.v1 = Unknown THEN Err(a.st, Undecided)
                 ELSE IF a.v1 = Zero THEN Err(a.st, DivisionByZero)
                 ELSE Ok(pushAll(a.st, <<RDiv(a.v2, a.v1), RRem(a.v2, a.v1)>>), None))
           [] b = "TwoDrop" -> Ok(a.st, None)
           [] b = "TwoDup" -> Ok(pushAll(a.st, <<a.v2, a.v1, a.v2, a.v1>>), None)
           [] b = "Over" -> Ok(pushAll(a.st, <<a.v2, a.v1, a.v2>>), None)
           [] b = "Swap" -> Ok(pushAll(a.st, <<a.v1, a.v2>>), None)
           [] b = "Rot" -> BuiltinRot(a, pop(a.st))
           [] b \in {"TwoOver", "TwoSwap"} -> BuiltinTwoPairs(b, a, pop2(a.st))

\* the arms of ForthBuiltin::eval that start with one pop2, whose result is a
\* ((n2, n1) = pop2: n2 = a.v1, n1 = a.v2)
BuiltinPair(b, a) ==
    IF ~a.ok THEN Err(a.st, StackUnderflow)
    ELSE CASE b \in {"Add", "Subtract", "Multiply"} ->
                Ok(push(a.st, Arith(b, a.v2, a.v1)), None)
           [] b \in {"Divide", "Mod"} ->
                (IF a.v1 = Unknown THEN Err(a.st, Undecided)
                 ELSE IF a.v1 = Zero THEN Err(a.st, DivisionByZero)
                 ELSE Ok(push(a.st, Arith(b, a.v2, a.v1)), None))
           [] b = "SlashMod" ->
                (IF a.v1 = Unknown THEN Err(a.st, Undecided)
                 ELSE IF a.v1 = Zero THEN Err(a.st, DivisionByZero)
                 ELSE Ok(pushAll(a.st, <<RRem(a.v2, a.v1), RDiv(a.v2, a.v1)>>), None))
           [] b = "TwoDrop" -> Ok(a.st, None)
           [] b = "TwoDup" -> Ok(pushAll(a.st, <<a.v2, a.v1, a.v2, a.v1>>), None)
           [] b = "Over" -> Ok(pushAll(a.st, <<a.v2, a.v1, a.v2>>), None)
           [] b = "Swap" -> Ok(pushAll(a.st, <<a.v1, a.v2>>), None)
           [] b = "Rot" -> BuiltinRot(a, pop(a.st))
           [] b \in {"TwoOver", "TwoSwap"} -> BuiltinTwoPairs(b, a, pop2(a.st))

\* the arms of ForthBuiltin::eval that pop one value, the result of which is o
BuiltinOne(o) ==
    IF ~o.ok THEN Err(o.st, StackUnderflow) ELSE Ok(o.st, None)

\* the arm Spaces of ForthBuiltin::eval, o being the result of pop: the
\* string of `num as usize` spaces is collected before it is printed; the
\* cast saturates, +inf is usize::MAX and no memory holds the string; NaN
\* and every negative value are 0; the cast of an Unknown value is not
\* decided
BuiltinSpaces(o) ==
    IF ~o.ok THEN Err(o.st, StackUnderflow)
    ELSE IF o.v = Infinity THEN Err(o.st, Aborted)
    ELSE IF o.v = Unknown THEN Err(o.st, Undecided)
    ELSE Ok(o.st, None)

\* the arm Dup of ForthBuiltin::eval: t is the result of top
BuiltinDup(st, t) ==
    IF ~t.ok THEN Err(st, StackUnderflow) ELSE Ok(push(st, t.v), None)

\* ForthBuiltin::eval
BuiltinEval(b, st) ==
    CASE b = "Bye" -> Err(st, UserQuit)
      [] b \in {"CR", "Show", "Space"} -> Ok(st, None)
      [] b \in {"Display", "Drop", "Emit"} -> BuiltinOne(pop(st))
      [] b = "Spaces" -> BuiltinSpaces(pop(st))
      [] b = "Dup" -> BuiltinDup(st, top(st))
      [] OTHER -> BuiltinPair(b, pop2(st))

(***************************************************************************)
(* Token evaluation                                                        *)
(***************************************************************************)
\* Token::parse_word
parse_word(word) ==
    LET b == try_from(to_lowercase(word))
    IN  IF b.ok THEN [ok |-> TRUE, token |-> Builtin(b.builtin)]
        ELSE [ok |-> FALSE, err |-> UnknownWord(word)]

\* lookup_definition that leaves a name of a body unresolved, to be looked up
\* when the word is called
lookup_definition_late(st, token) == [ok |-> TRUE, token |-> token]

\* lookup_definition that resolves a name of a body among the builtins only
lookup_definition_builtin(st, token) ==
    IF token.type = "Word" THEN parse_word(token.word)
    ELSE [ok |-> TRUE, token |-> token]

\* Token::lookup_definition
lookup_definition(st, token) ==
    IF token.type = "Word"
    THEN LET found == lookup(st, token.word)
             parsed == parse_word(token.word)
         IN  IF found.some THEN [ok |-> TRUE, token |-> found.v]
             ELSE parsed
    ELSE [ok |-> TRUE, token |-> token]

\* eval_user_defined that, when a name of the body resolves to nothing,
\* reports it and installs the tokens that did resolve
eval_user_defined_partial(st, tokens) ==
    IF Len(tokens) >= 1 /\ tokens[1].type = "Word"
    THEN LET name == tokens[1].word
             rest == Tail(tokens)
             looked == [i \in 1..Len(rest) |-> lookup_definition(st, rest[i])]
             failed == {i \in 1..Len(rest) : ~looked[i].ok}
             good == SelectSeq(looked, LAMBDA l : l.ok)
             body == [i \in 1..Len(good) |-> good[i].token]
         IN  IF failed = {}
             THEN Ok(define_word(st, name, Definition(body)), None)
             ELSE Err(define_word(st, name, Definition(body)),
                      looked[CHOOSE i \in failed : \A j \in failed : i <= j].err)
    ELSE Err(st, InvalidWord(tokens))

\* Token::eval_user_defined
eval_user_defined(st, tokens) ==
    IF Len(tokens) >= 1 /\ tokens[1].type = "Word"
    THEN LET name == tokens[1].word
             rest == Tail(tokens)
             looked == [i \in 1..Len(rest) |-> lookup_definition(st, rest[i])]
             failed == {i \in 1..Len(rest) : ~looked[i].ok}
         IN  IF failed = {}
             THEN Ok(define_word(st, name,
                        Definition([i \in 1..Len(rest) |-> looked[i].token])), None)
             ELSE Err(st, looked[CHOOSE i \in failed : \A j \in failed : i <= j].err)
    ELSE Err(st, InvalidWord(tokens))

RECURSIVE EvalToken(_, _)
RECURSIVE eval_definition(_, _)
RECURSIVE DefinitionNext(_, _)

\* eval_word that tries the builtins before the dictionary
eval_word_builtin_first(st, word) ==
    LET found == lookup(st, word)
        parsed == parse_word(word)
    IN  IF parsed.ok THEN EvalToken(parsed.token, st)
        ELSE IF found.some
        THEN CASE found.v.type = "Number" -> Ok(st, Some(found.v.num))
               [] found.v.type = "Definition" -> eval_definition(st, found.v.body)
               [] OTHER -> Err(st, InvalidWord(found.v))
        ELSE Err(st, parsed.err)

\* Token::eval_word
eval_word(st, word) ==
    LET found == lookup(st, word)
        parsed == parse_word(word)
    IN  IF found.some
        THEN CASE found.v.type = "Number" -> Ok(st, Some(found.v.num))
               [] found.v.type = "Definition" -> eval_definition(st, found.v.body)
               [] OTHER -> Err(st, InvalidWord(found.v))
        ELSE IF parsed.ok THEN EvalToken(parsed.token, st)
             ELSE Err(st, parsed.err)

\* Token::eval
EvalToken(token, st) ==
    CASE token.type = "Number" -> Ok(st, Some(token.num))
      [] token.type = "Builtin" -> BuiltinEval(token.builtin, st)
      [] token.type = "Word" -> eval_word(st, token.word)
      [] token.type = "UserDefined" -> eval_user_defined(st, token.body)
      [] token.type = "Definition" -> eval_definition(st, token.body)

\* the rest of one iteration of the loop of Token::eval_definition, r being
\* the result of token.eval: `?` returns its error, a value it produced is
\* pushed, and the loop goes on with the remaining tokens
DefinitionNext(r, remaining) ==
    IF ~IsOk(r) THEN r
    ELSE eval_definition(IF r.res.some THEN push(r.st, r.res.v) ELSE r.st, remaining)

\* Token::eval_definition
eval_definition(st, tokens) ==
    IF tokens = <<>> THEN Ok(st, None)
    ELSE DefinitionNext(EvalToken(Head(tokens), st), Tail(tokens))

(***************************************************************************)
(* The writes to stdout                                                    *)
(***************************************************************************)
\* `num as usize` of a finite num is 1 at least: the cast drops the fraction,
\* and the f64 nearest to n/d has the integer part of n/d within the
\* integers of the model
AsUsizePositive(v) == v.d > 0 /\ Trunc(v.n, v.d) >= 1

\* the arm of ForthBuiltin::eval for b reaches a print!, a println! or
\* show_stack, o being the result of pop: CR, Show and Space always, Display
\* and Emit after their pop, Spaces when `num as usize` is 1 at least (the
\* string of no space is printed without a write; +inf ends the process
\* before the print, and the cast of an Unknown value is not decided)
BuiltinWrites(b, o) ==
    CASE b \in {"CR", "Show", "Space"} -> TRUE
      [] b \in {"Display", "Emit"} -> o.ok
      [] b = "Spaces" -> o.ok /\ AsUsizePositive(o.v)
      [] OTHER -> FALSE

RECURSIVE Writes(_, _)
RECURSIVE WritesIn(_, _)

\* eval_word reaches a write: in the body the dictionary holds for the
\* word, or else in the builtin it names
WordWrites(st, found, parsed) ==
    IF found.some
    THEN found.v.type = "Definition" /\ WritesIn(found.v.body, st)
    ELSE parsed.ok /\ Writes(parsed.token, st)

\* Token::eval of the token in st reaches a write to stdout
Writes(token, st) ==
    CASE token.type = "Builtin" -> BuiltinWrites(token.builtin, pop(st))
      [] token.type = "Word" ->
            WordWrites(st, lookup(st, token.word), parse_word(token.word))
      [] token.type = "Definition" -> WritesIn(token.body, st)
      [] OTHER -> FALSE

\* the tokens after the first of a body reach a write, r being the result
\* of the first: they are evaluated when it succeeds, after the push of the
\* value it produced
WritesAfter(r, remaining) ==
    /\ IsOk(r)
    /\ WritesIn(remaining, IF r.res.some THEN push(r.st, r.res.v) ELSE r.st)

\* Token::eval_definition of the tokens in st reaches a write to stdout
WritesIn(tokens, st) ==
    /\ tokens # <<>>
    /\ \/ Writes(Head(tokens), st)
       \/ WritesAfter(EvalToken(Head(tokens), st), Tail(tokens))

(***************************************************************************)
(* Forth: tokenize, run, eval                                              *)
(***************************************************************************)
\* TokenizeItem that takes the first lexeme of a block for a name without
\* trying to parse it as a number
TokenizeItem_name_unparsed(t, item) ==
    IF item = <<":">>
    THEN [t EXCEPT !.in_user_defined = TRUE]
    ELSE LET num == IF t.in_user_defined /\ t.user_defined = <<>>
                    THEN [ok |-> FALSE] ELSE parse(item)
             closes == ~num.ok /\ item = <<";">>
             token == IF num.ok THEN Number(num.val)
                      ELSE IF closes THEN UserDefined(t.user_defined)
                      ELSE Word(item)
             inside == IF closes THEN FALSE ELSE t.in_user_defined
             ud == IF inside THEN Append(t.user_defined, token) ELSE t.user_defined
         IN  [tokens |-> IF inside THEN t.tokens ELSE Append(t.tokens, token),
              user_defined |-> IF ~inside /\ ud # <<>> THEN <<>> ELSE ud,
              in_user_defined |-> inside]

\* TokenizeItem that does not clear the buffer when a block closes
TokenizeItem_no_reset(t, item) ==
    IF item = <<":">>
    THEN [t EXCEPT !.in_user_defined = TRUE]
    ELSE LET num == parse(item)
             closes == ~num.ok /\ item = <<";">>
             token == IF num.ok THEN Number(num.val)
                      ELSE IF closes THEN UserDefined(t.user_defined)
                      ELSE Word(item)
             inside == IF closes THEN FALSE ELSE t.in_user_defined
             ud == IF inside THEN Append(t.user_defined, token) ELSE t.user_defined
         IN  [tokens |-> IF inside THEN t.tokens ELSE Append(t.tokens, token),
              user_defined |-> ud,
              in_user_defined |-> inside]

\* one iteration of the loop of Forth::tokenize; t holds the three locals
TokenizeItem(t, item) ==
    IF item = <<":">>
    THEN [t EXCEPT !.in_user_defined = TRUE]
    ELSE LET num == parse(item)
             closes == ~num.ok /\ item = <<";">>
             token == IF num.ok THEN Number(num.val)
                      ELSE IF closes THEN UserDefined(t.user_defined)
                      ELSE Word(item)
             inside == IF closes THEN FALSE ELSE t.in_user_defined
             ud == IF inside THEN Append(t.user_defined, token) ELSE t.user_defined
         IN  [tokens |-> IF inside THEN t.tokens ELSE Append(t.tokens, token),
              user_defined |-> IF ~inside /\ ud # <<>> THEN <<>> ELSE ud,
              in_user_defined |-> inside]

RECURSIVE TokenizeLoop(_, _)
TokenizeLoop(t, items) ==
    IF items = <<>> THEN t
    ELSE TokenizeLoop(TokenizeItem(t, Head(items)), Tail(items))

\* tokenize that returns the top-level tokens of a line that ends inside a
\* definition
tokenize_lenient(lexemes) ==
    [ok |-> TRUE,
     tokens |-> TokenizeLoop([tokens |-> <<>>, user_defined |-> <<>>,
                              in_user_defined |-> FALSE], lexemes).tokens]

\* Forth::tokenize
tokenize(lexemes) ==
    LET t == TokenizeLoop([tokens |-> <<>>, user_defined |-> <<>>,
                           in_user_defined |-> FALSE], lexemes)
    IN  IF t.in_user_defined THEN [ok |-> FALSE, err |-> Unterminated]
        ELSE [ok |-> TRUE, tokens |-> t.tokens]

RECURSIVE RunFrom(_, _, _)

\* RunPush whose result is the value on top of the stack the token leaves
RunPush_top(r) ==
    IF ~IsOk(r) THEN r
    ELSE IF r.res.some THEN Ok(push(r.st, r.res.v), r.res)
    ELSE Ok(r.st, IF r.st.stack # <<>> THEN Some(r.st.stack[Len(r.st.stack)]) ELSE None)

\* the rest of one iteration of the loop of Forth::run, r being the result
\* of token.eval: `?` returns its error, and a value it produced is pushed
RunPush(r) ==
    IF ~IsOk(r) THEN r
    ELSE Ok(IF r.res.some THEN push(r.st, r.res.v) ELSE r.st, r.res)

\* one iteration of the loop of Forth::run
RunStep(token, st) == RunPush(EvalToken(token, st))

\* the rest of the loop of Forth::run after an iteration whose result is r
RunNext(r, remaining) ==
    IF ~IsOk(r) THEN r ELSE RunFrom(remaining, r.st, r.res)

\* Forth::run
RunFrom(tokens, st, result) ==
    IF tokens = <<>> THEN Ok(st, result)
    ELSE RunNext(RunStep(Head(tokens), st), Tail(tokens))

run(tokens, st) == RunFrom(tokens, st, None)

\* eval that runs the tokens before an unterminated `:` and then reports it
eval_run_first(input, st) ==
    LET line == trim(input)
        t == TokenizeLoop([tokens |-> <<>>, user_defined |-> <<>>,
                           in_user_defined |-> FALSE], lex(line))
    IN  IF line = <<>> THEN Ok(st, None)
        ELSE IF t.in_user_defined THEN Err(run(t.tokens, st).st, Unterminated)
        ELSE run(t.tokens, st)

\* Forth::eval
eval(input, st) ==
    LET line == trim(input)
        t == tokenize(lex(line))
    IN  IF line = <<>> THEN Ok(st, None)
        ELSE IF ~t.ok THEN Err(st, t.err)
        ELSE run(t.tokens, st)

(***************************************************************************)
(* The session: main's loop around Forth::eval, one token of run at a time *)
(***************************************************************************)
VARIABLES
    dictionary,  \* State::dictionary
    stack,       \* State::stack
    pc,          \* "idle": main waits for a line; "run": inside Forth::run;
                 \* "quit": main has left its loop at the end of the input
                 \* or on UserQuit; "failed": main has left its loop on a
                 \* read error; "aborted": the process was ended inside
                 \* Forth::run for lack of memory; "panicked": the process
                 \* was ended by the panic of a write to stdout, in main or
                 \* inside Forth::run
    input,       \* the line given to the last eval call
    tokens,      \* the tokens run was given by the last eval call
    idx,         \* the index in tokens of the token run evaluates next
    result,      \* the local `result` of run
    ret,         \* what the last eval call returned: [err, res]
    evals,       \* the number of eval calls made
    stack0,      \* the stack when the last evaluated token started
    dictionary0, \* the dictionary when the last evaluated token started
    start        \* the State when the last eval call was made

vars == <<dictionary, stack, pc, input, tokens, idx, result, ret, evals,
          stack0, dictionary0, start>>

\* the State of the session
state == [dictionary |-> dictionary, stack |-> stack]

RECURSIVE Depth(_)
\* the nesting depth of a token: 0 for a token that holds no token
Depth(token) ==
    IF token.type \in {"Definition", "UserDefined"}
    THEN LET ds == {Depth(token.body[i]) : i \in 1..Len(token.body)}
         IN  1 + (IF ds = {} THEN 0 ELSE CHOOSE d \in ds : \A e \in ds : e <= d)
    ELSE 0

\* no number of the token is Unknown
RECURSIVE Known(_)
Known(token) ==
    CASE token.type = "Number" -> token.num # Unknown
      [] token.type \in {"Definition", "UserDefined"} ->
            \A i \in 1..Len(token.body) : Known(token.body[i])
      [] OTHER -> TRUE

\* the states the model follows
Bounded(st) ==
    /\ Len(st.stack) <= MaxStack
    /\ \A i \in 1..Len(st.stack) : Representable(st.stack[i])
    /\ \A k \in DOMAIN st.dictionary :
          Depth(st.dictionary[k]) <= MaxDepth /\ Known(st.dictionary[k])

\* Forth::new, and main before its first read
Init ==
    /\ dictionary = NewState.dictionary
    /\ stack = NewState.stack
    /\ pc = "idle"
    /\ input = <<>>
    /\ tokens = <<>>
    /\ idx = 1
    /\ result = None
    /\ ret = [err |-> NoErr, res |-> None]
    /\ evals = 0
    /\ stack0 = <<>>
    /\ dictionary0 = <<>>
    /\ start = NewState

\* main reads the line inp and calls Forth::eval, which trims, lexes and
\* tokenizes it, and returns at once for an empty line or an unterminated one
EvalCall(inp, maxEvals) ==
    /\ pc = "idle"
    /\ evals < maxEvals
    /\ start' = state
    /\ LET line == trim(inp)
           t == tokenize(lex(line))
       IN  /\ input' = inp
           /\ evals' = evals + 1
           /\ idx' = 1
           /\ result' = None
           /\ IF line = <<>>
              THEN /\ tokens' = <<>>
                   /\ ret' = [err |-> NoErr, res |-> None]
                   /\ pc' = "idle"
              ELSE IF ~t.ok
              THEN /\ tokens' = <<>>
                   /\ ret' = [err |-> t.err, res |-> None]
                   /\ pc' = "idle"
              ELSE /\ tokens' = t.tokens
                   /\ ret' = [err |-> NoErr, res |-> None]
                   /\ pc' = "run"
    /\ UNCHANGED <<dictionary, stack, stack0, dictionary0>>

\* the assignments of one iteration of the loop of Forth::run, r being the
\* result of the iteration
RunTokenResult(r) ==
    /\ Bounded(r.st)
    /\ r.err # Undecided
    /\ stack' = r.st.stack
    /\ dictionary' = r.st.dictionary
    /\ IF IsOk(r)
       THEN /\ result' = r.res
            /\ idx' = idx + 1
            /\ UNCHANGED <<pc, ret>>
       ELSE IF r.err = Aborted
       THEN /\ pc' = "aborted"
            /\ UNCHANGED <<result, idx, ret>>
       ELSE /\ ret' = [err |-> r.err, res |-> None]
            /\ pc' = IF r.err = UserQuit THEN "quit" ELSE "idle"
            /\ UNCHANGED <<result, idx>>

\* what a write to stdout can do: print!, println! and the unwrap of flush
\* panic when stdout cannot be written, and the process ends; whether the
\* bytes leave the buffer of stdout inside the call or at main's next flush
\* is not followed, and a panic is possible at either place
Panics(writes) == IF writes THEN {FALSE, TRUE} ELSE {FALSE}

\* one iteration of the loop of Forth::run; an error ends the eval call, and
\* main leaves its loop on UserQuit; a token that writes to stdout can end
\* the process instead, and the State is lost with it
RunToken ==
    /\ pc = "run"
    /\ idx <= Len(tokens)
    /\ \E panic \in Panics(Writes(tokens[idx], state)) :
          IF panic
          THEN /\ pc' = "panicked"
               /\ UNCHANGED <<dictionary, stack, idx, result, ret, stack0,
                              dictionary0>>
          ELSE /\ RunTokenResult(RunStep(tokens[idx], state))
               /\ stack0' = stack
               /\ dictionary0' = dictionary
    /\ UNCHANGED <<input, tokens, evals, start>>

\* the end of the loop of Forth::run: eval returns Ok(result)
RunReturn ==
    /\ pc = "run"
    /\ idx > Len(tokens)
    /\ ret' = [err |-> NoErr, res |-> result]
    /\ pc' = "idle"
    /\ UNCHANGED <<dictionary, stack, input, tokens, idx, result, evals,
                   stack0, dictionary0, start>>

\* read_line returns Ok(0) at the end of the input: main leaves its loop
EndOfInput ==
    /\ pc = "idle"
    /\ pc' = "quit"
    /\ UNCHANGED <<dictionary, stack, input, tokens, idx, result, ret, evals,
                   stack0, dictionary0, start>>

\* read_line returns Err(msg): main prints the message and leaves its loop
ReadError ==
    /\ pc = "idle"
    /\ pc' = "failed"
    /\ UNCHANGED <<dictionary, stack, input, tokens, idx, result, ret, evals,
                   stack0, dictionary0, start>>

\* main cannot write to stdout: the unwrap of the flush of its prompt
\* panics, as does the println! of what eval returned
StdoutPanic ==
    /\ pc = "idle"
    /\ pc' = "panicked"
    /\ UNCHANGED <<dictionary, stack, input, tokens, idx, result, ret, evals,
                   stack0, dictionary0, start>>

(***************************************************************************)
(* The lines the sessions are made of                                      *)
(***************************************************************************)
\* the text of a line: its lexemes with one space between them
RECURSIVE Line(_)
Line(ws) ==
    IF ws = <<>> THEN <<>>
    ELSE IF Len(ws) = 1 THEN ws[1]
    ELSE ws[1] \o <<" ">> \o Line(Tail(ws))

\* definitions, redefinitions and calls of user-defined words
LinesDefs ==
    { Line(<<<<":">>, <<"f","o","o">>, <<"5">>, <<";">>>>),
      Line(<<<<":">>, <<"b","a","r">>, <<"f","o","o">>, <<";">>>>),
      Line(<<<<":">>, <<"f","o","o">>, <<"6">>, <<";">>>>),
      Line(<<<<"b","a","r">>, <<"f","o","o">>>>),
      Line(<<<<":">>, <<"f","o","o">>, <<"1","0">>, <<";">>>>),
      Line(<<<<":">>, <<"f","o","o">>, <<"f","o","o">>, <<"1">>, <<"+">>, <<";">>>>),
      Line(<<<<"f","o","o">>>>),
      Line(<<<<":">>, <<"b","a","r">>, <<"b","a","r">>, <<";">>>>),
      Line(<<<<":">>, <<"b","a","r">>, <<"b","a","z">>, <<"1">>, <<";">>>>),
      Line(<<<<"b","a","r">>>>),
      Line(<<<<"b","y","e">>>>) }

\* numbers and builtins, alone and after the operands they need
LinesOps ==
    { Line(<<<<"0">>>>),
      Line(<<<<"1">>>>),
      Line(<<<<"2">>, <<"1">>>>),
      Line(<<<<"1">>, <<"0">>>>),
      Line(<<<<"1">>, <<"2">>, <<"3">>>>),
      Line(<<<<"1">>, <<"2">>, <<"3">>, <<"4">>>>),
      Line(<<<<"d","r","o","p">>>>),
      Line(<<<<"d","u","p">>>>),
      Line(<<<<"e","m","i","t">>>>),
      Line(<<<<"s","p","a","c","e","s">>>>),
      Line(<<<<".">>>>),
      Line(<<<<"+">>>>),
      Line(<<<<"-">>>>),
      Line(<<<<"*">>>>),
      Line(<<<<"/">>>>),
      Line(<<<<"m","o","d">>>>),
      Line(<<<<"/","m","o","d">>>>),
      Line(<<<<"s","w","a","p">>>>),
      Line(<<<<"o","v","e","r">>>>),
      Line(<<<<"2","d","r","o","p">>>>),
      Line(<<<<"2","d","u","p">>>>),
      Line(<<<<"r","o","t">>>>),
      Line(<<<<"2","o","v","e","r">>>>),
      Line(<<<<"2","s","w","a","p">>>>),
      Line(<<<<"1">>, <<"2","o","v","e","r">>>>),
      Line(<<<<"1">>, <<"2">>, <<"2","o","v","e","r">>>>),
      Line(<<<<"1">>, <<"2">>, <<"3">>, <<"2","o","v","e","r">>>>),
      Line(<<<<"1">>, <<"s","w","a","p">>>>),
      Line(<<<<"1">>, <<"2">>, <<"r","o","t">>>>),
      Line(<<<<"1">>, <<"0">>, <<"/">>>>),
      Line(<<<<"1">>, <<"2">>, <<"+">>, <<"f","o","o">>>>),
      Line(<<<<"1">>, <<"a">>, <<"3">>, <<"4">>, <<"5">>>>),
      Line(<<<<"c","r">>, <<".","s">>, <<"s","p","a","c","e">>>>),
      Line(<<<<"q","u","i","t">>>>) }

\* the literals of the sums
SumLiterals == {<<"0">>, <<"1">>, <<"5">>, <<"6">>, <<"-","2">>, <<"0",".","5">>}

\* the lines `a b +` and `a b -`
LinesSums ==
    {Line(<<a, b, op>>) : a \in SumLiterals, b \in SumLiterals, op \in {<<"+">>, <<"-">>}}
        \cup {Line(<<<<"b","y","e">>>>)}

\* lines that differ in the letter case of their lexemes, a capital sigma
\* at the end of a word and before a character that is_case_ignorable
\* accepts among them
LinesCase ==
    { Line(<<<<"1">>, <<"d","u","p">>>>),
      Line(<<<<"1">>, <<"D","U","P">>>>),
      Line(<<<<"1">>, <<"D","u","p">>>>),
      Line(<<<<":">>, <<"f","o","o">>, <<"d","u","p">>, <<";">>>>),
      Line(<<<<":">>, <<"F","O","O">>, <<"D","U","P">>, <<";">>>>),
      Line(<<<<":">>, <<"F","o","o">>, <<"D","u","p">>, <<";">>>>),
      Line(<<<<"1">>, <<"f","o","o">>>>),
      Line(<<<<"1">>, <<"F","O","O">>>>),
      Line(<<<<"1">>, <<"F","o","o">>>>),
      Line(<<<<":">>, <<"α","σ">>, <<"d","u","p">>, <<";">>>>),
      Line(<<<<"1">>, <<"α","σ">>>>),
      Line(<<<<"1">>, <<"Α","Σ">>>>),
      Line(<<<<":">>, <<"a","Σ","໎","b">>, <<"1">>, <<";">>>>),
      Line(<<<<"a","σ","໎","b">>>>),
      Line(<<<<"A","Σ","໎","B">>>>),
      Line(<<<<":">>, <<"s","w","a","p">>, <<"d","u","p">>, <<"d","u","p">>, <<";">>>>),
      Line(<<<<":">>, <<"S","W","A","P">>, <<"D","U","P">>, <<"D","u","p">>, <<";">>>>),
      Line(<<<<"1">>, <<"2">>, <<"s","w","a","p">>>>),
      Line(<<<<"1">>, <<"2">>, <<"S","W","A","P">>>>),
      Line(<<<<":">>, <<"b","a","r">>, <<"f","o","o">>, <<";">>>>),
      Line(<<<<":">>, <<"b","a","r">>, <<"F","O","O">>, <<";">>>>),
      Line(<<<<"b","a","r">>>>),
      Line(<<<<"B","A","R">>>>),
      Line(<<<<"B","a","r">>>>),
      Line(<<<<"b","y","e">>>>),
      Line(<<<<"B","Y","E">>>>) }

\* lines that leave a definition open, and complete ones
LinesOpen ==
    { Line(<<<<":">>>>),
      Line(<<<<":">>, <<"f","o","o">>>>),
      Line(<<<<":">>, <<"f","o","o">>, <<"1">>>>),
      Line(<<<<":">>, <<"f","o","o">>, <<"1">>, <<";">>>>),
      Line(<<<<"f","o","o">>>>),
      Line(<<<<"1">>, <<":">>, <<"f","o","o">>, <<"2">>, <<";">>, <<":">>, <<"b","a","r">>>>),
      Line(<<<<":">>, <<"f","o","o">>, <<"1">>, <<";">>, <<"2">>>>),
      Line(<<<<"1">>, <<"2">>, <<":">>, <<"f","o","o">>>>),
      Line(<<<<":">>, <<":">>, <<"f","o","o">>, <<"1">>, <<";">>>>),
      Line(<<<<":">>, <<"f","o","o">>, <<";">>, <<":">>>>),
      Line(<<<<";">>, <<"1">>>>),
      Line(<<<<"1">>, <<";">>>>),
      Line(<<<<"b","y","e">>>>) }

\* definitions under the names of builtins, and uses of those names
LinesShadow ==
    { Line(<<<<":">>, <<"s","w","a","p">>, <<"d","u","p">>, <<";">>>>),
      Line(<<<<"1">>, <<"s","w","a","p">>>>),
      Line(<<<<"1">>, <<"2">>, <<"s","w","a","p">>>>),
      Line(<<<<":">>, <<"+">>, <<"*">>, <<";">>>>),
      Line(<<<<"3">>, <<"4">>, <<"+">>>>),
      Line(<<<<":">>, <<"f","o","o">>, <<"s","w","a","p">>, <<";">>>>),
      Line(<<<<"1">>, <<"2">>, <<"f","o","o">>>>),
      Line(<<<<":">>, <<"b","a","r">>, <<"1">>, <<"+">>, <<";">>>>),
      Line(<<<<"2">>, <<"b","a","r">>>>),
      Line(<<<<"q","u","i","t">>>>) }

\* blocks whose body names an unknown word, blocks named by a number, and
\* blocks that are well formed
LinesBad ==
    { Line(<<<<":">>, <<"f","o","o">>, <<"1">>, <<";">>>>),
      Line(<<<<":">>, <<"f","o","o">>, <<"b","a","r">>, <<";">>>>),
      Line(<<<<":">>, <<"f","o","o">>, <<"1">>, <<"B","A","Z">>, <<"2">>, <<";">>>>),
      Line(<<<<":">>, <<"b","a","r">>, <<"f","o","o">>, <<"q","u","x">>, <<"b","a","z">>, <<";">>>>),
      Line(<<<<":">>, <<"b","a","r">>, <<"2">>, <<"d","u","p">>, <<";">>>>),
      Line(<<<<"f","o","o">>>>),
      Line(<<<<"b","a","r">>>>),
      Line(<<<<":">>, <<"1">>, <<"2">>, <<";">>>>),
      Line(<<<<":">>, <<"1">>, <<";">>>>),
      Line(<<<<":">>, <<"2",".","5">>, <<"d","u","p">>, <<";">>>>),
      Line(<<<<":">>, <<"-","1">>, <<"f","o","o">>, <<";">>>>),
      Line(<<<<":">>, <<"1">>, <<"n","o","p","e">>, <<";">>>>),
      Line(<<<<"1">>>>),
      Line(<<<<"2",".","5">>, <<"-","1">>>>),
      Line(<<<<"b","y","e">>>>) }

\* the literals of the binary operations
ArithLiterals == {<<"-","7">>, <<"2">>, <<"0",".","5">>, <<"0">>}

\* the lines `a b op` for the six binary operations
LinesArith ==
    {Line(<<a, b, op>>) : a \in ArithLiterals, b \in ArithLiterals,
                          op \in {<<"+">>, <<"-">>, <<"*">>, <<"/">>, <<"m","o","d">>,
                                  <<"/","m","o","d">>}}
        \cup {Line(<<<<"b","y","e">>>>)}

\* lines of every outcome: empty and blank ones, values, each kind of error,
\* lines that end with a literal, a builtin, a block or a call, a word that
\* ends the process and one that writes to stdout
LinesOutcomes ==
    { <<>>,
      <<" ">>,
      <<" ", " ", " ">>,
      <<"\t">>,
      <<"\n">>,
      <<" ", "\t", "\r", "\n">>,
      <<" ", "1", " ", "\n">>,
      Line(<<<<"1">>>>),
      Line(<<<<"1">>, <<"2",".","5">>, <<"0",".","5">>, <<"4">>, <<"5">>>>),
      Line(<<<<"5">>, <<"6">>, <<"+">>>>),
      Line(<<<<"1">>, <<"d","u","p">>>>),
      Line(<<<<":">>, <<"f","o","o">>, <<"5">>, <<";">>>>),
      Line(<<<<"f","o","o">>>>),
      Line(<<<<":">>, <<"f","o","o">>, <<"i","n","f">>, <<"s","p","a","c","e","s">>,
             <<";">>>>),
      Line(<<<<":">>, <<"f","o","o">>, <<"1">>, <<".">>, <<"c","r">>, <<";">>>>),
      Line(<<<<":">>, <<"f","o","o">>, <<"2",".","3">>, <<"s","p","a","c","e","s">>,
             <<";">>>>),
      Line(<<<<":">>, <<"f","o","o">>, <<"5">>, <<";">>, <<"7">>>>),
      Line(<<<<"7">>, <<":">>, <<"f","o","o">>, <<"5">>, <<";">>>>),
      Line(<<<<"+">>>>),
      Line(<<<<"1">>, <<"0">>, <<"/">>>>),
      Line(<<<<":">>, <<"1">>, <<"2">>, <<";">>>>),
      Line(<<<<":">>, <<"f","o","o">>>>),
      Line(<<<<"b","y","e">>>>),
      Line(<<<<"1">>, <<"q","u","i","t">>, <<"2">>>>) }

\* lines that hold blocks and top-level tokens, before and after them
LinesLine ==
    { Line(<<<<":">>, <<"o","n","e">>, <<"1">>, <<";">>, <<":">>, <<"t","w","o">>, <<"2">>, <<";">>,
             <<"o","n","e">>, <<"t","w","o">>, <<"+">>>>),
      Line(<<<<"1">>, <<"2">>, <<"+">>, <<":">>, <<"a","d","d","o","n","e">>, <<"1">>, <<"+">>, <<";">>,
             <<"a","d","d","o","n","e">>>>),
      Line(<<<<"f","o","o">>, <<":">>, <<"f","o","o">>, <<"1">>, <<";">>>>),
      Line(<<<<":">>, <<"f","o","o">>, <<"2">>, <<";">>, <<"f","o","o">>,
             <<":">>, <<"f","o","o">>, <<"3">>, <<";">>, <<"f","o","o">>>>),
      Line(<<<<"f","o","o">>>>),
      Line(<<<<"+">>, <<":">>, <<"b","a","r">>, <<"1">>, <<";">>>>),
      Line(<<<<"b","a","r">>>>),
      Line(<<<<"t","w","o">>, <<":">>, <<"t","w","o">>, <<"o","n","e">>, <<"o","n","e">>, <<";">>, <<"t","w","o">>>>),
      Line(<<<<"b","y","e">>>>) }

\* the definitions and calls of LinesDefs, and blocks whose name is not in
\* lower case
LinesFrame ==
    LinesDefs \cup
    { Line(<<<<":">>, <<"F","O","O">>, <<"7">>, <<";">>>>),
      Line(<<<<":">>, <<"B","a","r">>, <<"f","o","o">>, <<"d","u","p">>, <<";">>>>),
      Line(<<<<"1">>, <<":">>, <<"b","a","z">>, <<"2">>, <<";">>, <<"+">>>>) }

(***************************************************************************)
(* Specifications                                                          *)
(***************************************************************************)
\* the sessions whose lines are drawn from lines, of at most maxEvals calls
NextOn(lines, maxEvals) ==
    \/ \E inp \in lines : EvalCall(inp, maxEvals)
    \/ RunToken
    \/ RunReturn
    \/ EndOfInput
    \/ ReadError
    \/ StdoutPanic

NextDefs == NextOn(LinesDefs, MaxEvalsDefs)
NextOps == NextOn(LinesOps, MaxEvalsOps)
NextSums == NextOn(LinesSums, MaxEvalsSums)
NextCase == NextOn(LinesCase, MaxEvalsCase)
NextOpen == NextOn(LinesOpen, MaxEvalsOpen)
NextShadow == NextOn(LinesShadow, MaxEvalsShadow)
NextBad == NextOn(LinesBad, MaxEvalsBad)
NextArith == NextOn(LinesArith, MaxEvalsArith)
NextOutcomes == NextOn(LinesOutcomes, MaxEvalsOutcomes)
NextLine == NextOn(LinesLine, MaxEvalsLine)
NextFrame == NextOn(LinesFrame, MaxEvalsFrame)

Next == NextDefs

Spec == Init /\ [][Next]_vars
SpecDefs == Init /\ [][NextDefs]_vars
SpecOps == Init /\ [][NextOps]_vars
SpecSums == Init /\ [][NextSums]_vars
SpecCase == Init /\ [][NextCase]_vars
SpecOpen == Init /\ [][NextOpen]_vars
SpecShadow == Init /\ [][NextShadow]_vars
SpecBad == Init /\ [][NextBad]_vars
SpecArith == Init /\ [][NextArith]_vars
SpecOutcomes == Init /\ [][NextOutcomes]_vars
SpecLine == Init /\ [][NextLine]_vars
SpecFrame == Init /\ [][NextFrame]_vars

(***************************************************************************)
(* Properties                                                              *)
(***************************************************************************)
\* the last eval call has returned an error raised by the token tokens[idx]
Failed == ret.err \notin {NoErr, Unterminated}

\* the token tokens[idx - 1] has just been evaluated with success
Succeeded == idx > 1 /\ ret.err = NoErr

\* the last eval call has returned
Returned == evals > 0 /\ pc \notin {"run", "aborted", "panicked"}

\* the last eval call has evaluated a token: the one that failed, or the last
\* of those that succeeded
Stepped == Failed \/ Succeeded

\* that token
StepToken == IF Failed THEN tokens[idx] ELSE tokens[idx - 1]

\* the State that token started with
state0 == [dictionary |-> dictionary0, stack |-> stack0]

\* the token is a top-level word that the dictionary d does not hold and that
\* names a builtin
IsTopBuiltin(token, d) ==
    /\ token.type = "Word"
    /\ to_lowercase(token.word) \notin DOMAIN d
    /\ try_from(to_lowercase(token.word)).ok

\* the builtin a top-level word names
BuiltinOf(token) == try_from(to_lowercase(token.word)).builtin

\* the token is a top-level word that neither the dictionary d nor the
\* builtins know
IsUnknown(token, d) ==
    /\ token.type = "Word"
    /\ to_lowercase(token.word) \notin DOMAIN d
    /\ ~try_from(to_lowercase(token.word)).ok

Nums(ks) == [i \in 1..Len(ks) |-> IntNum(ks[i])]

\* the state st with the stack s
WithStack(st, s) == [st EXCEPT !.stack = s]

\* the state three eval calls lead to from st
After3(st, l1, l2, l3) == eval(l3, eval(l2, eval(l1, st).st).st).st

\* the names whose binding a step changes
Rebound == {k \in DOMAIN dictionary' :
                k \notin DOMAIN dictionary \/ dictionary'[k] # dictionary[k]}

\* what a call of the word w does from the stack s under the dictionary d
CallOf(w, s, d) ==
    LET r == eval_word([dictionary |-> d, stack |-> s], w)
    IN  <<r.st.stack, r.err, r.res>>

\* C1 (snapshot law): from every state a session reaches, the three calls
\* `: foo 5 ;`, `: bar foo ;`, `: foo 6 ;` followed by `bar foo` push 5 then 6
\* and return Ok(None)
C1_Scenario ==
    pc = "idle" =>
        LET r == eval(Line(<<<<"b","a","r">>, <<"f","o","o">>>>),
                      After3(state, Line(<<<<":">>, <<"f","o","o">>, <<"5">>, <<";">>>>),
                             Line(<<<<":">>, <<"b","a","r">>, <<"f","o","o">>, <<";">>>>),
                             Line(<<<<":">>, <<"f","o","o">>, <<"6">>, <<";">>>>)))
        IN  /\ IsOk(r)
            /\ r.st.stack = stack \o Nums(<<5, 6>>)

\* C1 (snapshot law): a step that binds or rebinds a name changes what no
\* other defined word does when called, on the current stack and on the empty
\* one; with C1_Scenario this is the claim C1
C1_SnapshotLaw ==
    [][\A w \in (DOMAIN dictionary) \ Rebound :
          \A s \in {<<>>, stack} :
              CallOf(w, s, dictionary') = CallOf(w, s, dictionary)]_vars
        /\ []C1_Scenario

\* C1 witness: the session of the test has run: bar, defined when foo pushed
\* 5, is called after foo was rebound to push 6, and 5 then 6 are pushed
C1_Witness ==
    /\ Returned
    /\ input = Line(<<<<"b","a","r">>, <<"f","o","o">>>>)
    /\ ret.err = NoErr
    /\ dictionary[<<"f","o","o">>] = Definition(<<Number(IntNum(6))>>)
    /\ stack = start.stack \o Nums(<<5, 6>>)

RECURSIVE FullyResolved(_)
\* the token is a Number, a Builtin, or a Definition of such tokens
FullyResolved(token) ==
    \/ token.type \in {"Number", "Builtin"}
    \/ /\ token.type = "Definition"
       /\ \A i \in 1..Len(token.body) : FullyResolved(token.body[i])

\* C2 (fully resolved): every entry of the dictionary is a Definition whose
\* body holds, at every depth, only Numbers, Builtins and Definitions: no
\* Word and no UserDefined block
C2_FullyResolved ==
    \A k \in DOMAIN dictionary :
        dictionary[k].type = "Definition" /\ FullyResolved(dictionary[k])

\* C2 witness: a stored body holds a nested Definition next to a Number and a
\* Builtin, each resolved from a name
C2_Witness ==
    \E k \in DOMAIN dictionary :
        /\ \E i \in 1..Len(dictionary[k].body) : dictionary[k].body[i].type = "Definition"
        /\ \E i \in 1..Len(dictionary[k].body) : dictionary[k].body[i].type = "Builtin"
        /\ \E i \in 1..Len(dictionary[k].body) : dictionary[k].body[i].type = "Number"

\* C3 (no partial mutation), as claimed: when a top-level builtin fails with
\* StackUnderflow or DivisionByZero, the stack is the stack the token started
\* with
C3_NoPartialMutation ==
    (/\ Failed
     /\ IsTopBuiltin(tokens[idx], dictionary0)
     /\ ret.err \in {StackUnderflow, DivisionByZero})
        => stack = stack0

\* what the tokens before the failing one did is kept: the stack they left
\* is still there, under what the failing token may have pushed, and so is
\* every binding of the dictionary they left
EarlierChangesKept ==
    /\ Len(stack) >= Len(stack0)
    /\ SubSeq(stack, 1, Len(stack0)) = stack0
    /\ \A k \in DOMAIN dictionary0 :
          k \in DOMAIN dictionary /\ dictionary[k] = dictionary0[k]

\* C4 (error propagation), as claimed: when a top-level token fails, eval
\* has returned, no later token of the line has run, and what the tokens
\* before it did to the stack and to the dictionary is kept; an unknown word
\* fails with UnknownWord of its name and changes nothing; `1 2 + foo` has
\* returned UnknownWord("foo") and left 3 on the stack the call started
\* with, and `1 a 3 4 5` UnknownWord("a") and left 1
C4_ErrorPropagation ==
    /\ Failed =>
          /\ pc # "run"
          /\ idx <= Len(tokens)
          /\ EarlierChangesKept
          /\ IsUnknown(tokens[idx], dictionary0) =>
                /\ ret.err = UnknownWord(tokens[idx].word)
                /\ state = state0
    /\ (Returned /\ input = Line(<<<<"1">>, <<"2">>, <<"+">>, <<"f","o","o">>>>)) =>
          /\ ret.err = UnknownWord(<<"f","o","o">>)
          /\ state = [start EXCEPT !.stack = @ \o Nums(<<3>>)]
    /\ (Returned /\ input = Line(<<<<"1">>, <<"a">>, <<"3">>, <<"4">>, <<"5">>>>)) =>
          /\ ret.err = UnknownWord(<<"a">>)
          /\ state = [start EXCEPT !.stack = @ \o Nums(<<1>>)]

\* the arities claim C6 states
ArityOf(b) ==
    CASE b \in {"Drop", "Dup", "Emit", "Spaces", "Display"} -> 1
      [] b \in {"Add", "Subtract", "Multiply", "Divide", "Mod", "SlashMod",
                "Swap", "Over", "TwoDrop", "TwoDup"} -> 2
      [] b = "Rot" -> 3
      [] b \in {"TwoOver", "TwoSwap"} -> 4
      [] OTHER -> 0

\* C6 (arity check): a top-level builtin that failed did so with
\* StackUnderflow exactly when the stack it started with held fewer elements
\* than its arity, and one that succeeded started with at least that many
C6_ArityCheck ==
    /\ (Failed /\ IsTopBuiltin(tokens[idx], dictionary0)) =>
          (ret.err = StackUnderflow
              <=> Len(stack0) < ArityOf(BuiltinOf(tokens[idx])))
    /\ (Succeeded /\ IsTopBuiltin(tokens[idx - 1], dictionary0)) =>
          Len(stack0) >= ArityOf(BuiltinOf(tokens[idx - 1]))

\* C6 witness: the third call of the test two_over_error: `1 2 3 2over` on an
\* empty stack fails with StackUnderflow, three elements being there
C6_Witness ==
    /\ Failed
    /\ evals = 3
    /\ input = Line(<<<<"1">>, <<"2">>, <<"3">>, <<"2","o","v","e","r">>>>)
    /\ start.stack = <<>>
    /\ stack0 = Nums(<<1, 2, 3>>)
    /\ ret.err = StackUnderflow

DivisionBuiltins == {"Divide", "Mod", "SlashMod"}

\* C10 (division by zero): a top-level `/`, `mod` or `/mod` that started with
\* two operands or more failed only with DivisionByZero, only on a top
\* operand equal to 0, and left a prefix of the stack it started with; one
\* that succeeded started with a top operand other than 0
C10_DivisionByZero ==
    /\ (/\ Failed
        /\ IsTopBuiltin(tokens[idx], dictionary0)
        /\ BuiltinOf(tokens[idx]) \in DivisionBuiltins
        /\ Len(stack0) >= 2) =>
          /\ ret.err = DivisionByZero
          /\ stack0[Len(stack0)] = Zero
          /\ Len(stack) <= Len(stack0)
          /\ stack = SubSeq(stack0, 1, Len(stack))
    /\ (/\ Succeeded
        /\ IsTopBuiltin(tokens[idx - 1], dictionary0)
        /\ BuiltinOf(tokens[idx - 1]) \in DivisionBuiltins) =>
          stack0[Len(stack0)] # Zero

\* C10 witness: `/mod` has failed with DivisionByZero on a 0 above another
\* operand
C10_Witness ==
    /\ Failed
    /\ IsTopBuiltin(tokens[idx], dictionary0)
    /\ BuiltinOf(tokens[idx]) = "SlashMod"
    /\ Len(stack0) >= 2
    /\ stack0[Len(stack0)] = Zero
    /\ ret.err = DivisionByZero

\* the lexemes of the line of the last eval call
Lexemes == lex(trim(input))

\* the last eval call was given a line `a b +` or `a b -`
IsSumLine ==
    /\ Len(Lexemes) = 3
    /\ parse(Lexemes[1]).ok
    /\ parse(Lexemes[2]).ok
    /\ Lexemes[3] \in {<<"+">>, <<"-">>}

\* r is the sum of the fractions a and b
IsSum(r, a, b) == r.n * a.d * b.d = (a.n * b.d + b.n * a.d) * r.d

\* r is the difference of the fractions a and b
IsDifference(r, a, b) == r.n * a.d * b.d = (a.n * b.d - b.n * a.d) * r.d

\* r is what the line `a b +` or `a b -` of the last eval call computes
IsLineValue(r) ==
    IF Lexemes[3] = <<"+">>
    THEN IsSum(r, parse(Lexemes[1]).val, parse(Lexemes[2]).val)
    ELSE IsDifference(r, parse(Lexemes[1]).val, parse(Lexemes[2]).val)

\* C5 (eval returns the sum), as claimed: eval of `a b +` succeeds with the
\* value a+b, and eval of `a b -` with a-b
C5_ReturnsSum ==
    (Returned /\ IsSumLine) =>
        /\ ret.err = NoErr
        /\ ret.res.some
        /\ IsLineValue(ret.res.v)

\* two results of eval with the same state, the same kind of error or none,
\* and the same value or none
SameEffect(r1, r2) ==
    /\ r1.st = r2.st
    /\ r1.err.kind = r2.err.kind
    /\ r1.res = r2.res

\* the two lines differ in letter case only: they have the same length and,
\* at each place, characters with the same lower case
SameButCase(l1, l2) ==
    /\ Len(l1) = Len(l2)
    /\ \A i \in 1..Len(l1) :
          to_lowercase_char(l1[i]) = to_lowercase_char(l2[i])

\* C7 (case-insensitivity): from every state a session reaches, two lines
\* that differ only in letter case have the same effect, and the eval call
\* that has returned had the effect its line in lower case has on the state
\* the call started with
C7_CaseInsensitive ==
    /\ pc = "idle" =>
          \A l1, l2 \in LinesCase :
              SameButCase(l1, l2) =>
                  SameEffect(eval(l1, state), eval(l2, state))
    /\ Returned =>
          SameEffect([st |-> state, err |-> ret.err, res |-> ret.res],
                     eval(to_lowercase(input), start))

\* the block is `: name ... name ...` where the first name of the body that
\* nothing binds is the i-th token, which names the word being defined
SelfReferenceUnbound(body, d, i) ==
    /\ i \in 2..Len(body)
    /\ body[1].type = "Word"
    /\ IsUnknown(body[i], d)
    /\ to_lowercase(body[i].word) = to_lowercase(body[1].word)
    /\ \A j \in 2..(i - 1) : ~IsUnknown(body[j], d)

\* C8 (self-reference law): from every state a session reaches, after
\* `: foo 10 ;` and `: foo foo 1 + ;` the line `foo` leaves [11] on an empty
\* stack; and a block that has been evaluated, whose body names the word
\* being defined when nothing binds that name, has failed with
\* UnknownWord(name) and has defined nothing
C8_SelfReference ==
    /\ (pc = "idle" /\ <<"+">> \notin DOMAIN dictionary) =>
          LET s1 == eval(Line(<<<<":">>, <<"f","o","o">>, <<"1","0">>, <<";">>>>), WithStack(state, <<>>))
              s2 == eval(Line(<<<<":">>, <<"f","o","o">>, <<"f","o","o">>, <<"1">>, <<"+">>, <<";">>>>), s1.st)
              r  == eval(Line(<<<<"f","o","o">>>>), s2.st)
          IN  /\ IsOk(s1) /\ IsOk(s2) /\ IsOk(r)
              /\ r.st.stack = Nums(<<11>>)
    /\ (Stepped /\ StepToken.type = "UserDefined") =>
          \A i \in 1..Len(StepToken.body) :
              SelfReferenceUnbound(StepToken.body, dictionary0, i) =>
                  /\ Failed
                  /\ ret.err = UnknownWord(StepToken.body[i].word)
                  /\ dictionary = dictionary0

\* C8 witness: foo, bound to 10 and rebound to `foo 1 +`, has been called
\* and has left 11; then `: bar bar ;`, bar being bound to nothing, has
\* failed with UnknownWord("bar") and has left bar unbound
C8_Witness ==
    /\ Failed
    /\ evals = 4
    /\ input = Line(<<<<":">>, <<"b","a","r">>, <<"b","a","r">>, <<";">>>>)
    /\ ret.err = UnknownWord(<<"b","a","r">>)
    /\ DOMAIN dictionary = {<<"f","o","o">>}
    /\ dictionary[<<"f","o","o">>] =
          Definition(<<Definition(<<Number(IntNum(10))>>), Number(IntNum(1)),
                       Builtin("Add")>>)
    /\ stack = Nums(<<11>>)

\* a `:` of the lexemes has no `;` after it
OpenAtEnd(lexemes) ==
    \E i \in 1..Len(lexemes) :
        /\ lexemes[i] = <<":">>
        /\ \A j \in (i + 1)..Len(lexemes) : lexemes[j] # <<";">>

\* C9 (unterminated definition): an eval call whose line leaves a `:` without
\* a later `;` has returned Unterminated, has run no token, and has left the
\* dictionary as it was
C9_Unterminated ==
    (evals > 0 /\ OpenAtEnd(Lexemes)) =>
        /\ ret = [err |-> Unterminated, res |-> None]
        /\ pc # "run"
        /\ tokens = <<>>
        /\ dictionary = start.dictionary

\* C9 witness: `: foo 1` has returned Unterminated and foo is not defined
C9_Witness ==
    /\ evals > 0
    /\ input = Line(<<<<":">>, <<"f","o","o">>, <<"1">>>>)
    /\ ret.err = Unterminated
    /\ <<"f","o","o">> \notin DOMAIN dictionary

\* r is what that token did: the state it left and its error, if any
SameStep(r) ==
    /\ r.st = state
    /\ r.err = (IF Failed THEN ret.err ELSE NoErr)

\* the binding the block `: name ... ;` has just installed
Installed(block) == dictionary[to_lowercase(block.body[1].word)]

\* C11 (dictionary before builtins): from every state a session reaches in
\* which dup and * are builtins, `: swap dup ;` makes `1 swap` push 1 twice
\* and `: + * ;` makes `3 4 +` leave 12
C11_Scenario ==
    (pc = "idle" /\ <<"d","u","p">> \notin DOMAIN dictionary
                 /\ <<"*">> \notin DOMAIN dictionary) =>
        LET r1 == eval(Line(<<<<"1">>, <<"s","w","a","p">>>>),
                       eval(Line(<<<<":">>, <<"s","w","a","p">>, <<"d","u","p">>, <<";">>>>),
                            state).st)
            r2 == eval(Line(<<<<"3">>, <<"4">>, <<"+">>>>),
                       eval(Line(<<<<":">>, <<"+">>, <<"*">>, <<";">>>>), state).st)
        IN  /\ IsOk(r1) /\ r1.st.stack = stack \o Nums(<<1, 1>>)
            /\ IsOk(r2) /\ r2.st.stack = stack \o Nums(<<12>>)

\* C11 (dictionary before builtins): a top-level word that the dictionary
\* binds has done what its binding does, whether or not a builtin has its
\* name, and one that the dictionary does not bind and that names a builtin
\* has done what the builtin does; in the body of a block just installed,
\* every name the dictionary bound stands for that binding, and every other
\* name for the builtin of that name
C11_DictionaryFirst ==
    /\ C11_Scenario
    /\ (Stepped /\ StepToken.type = "Word") =>
          LET k == to_lowercase(StepToken.word)
          IN  IF k \in DOMAIN dictionary0
              THEN SameStep(RunStep(dictionary0[k], state0))
              ELSE try_from(k).ok =>
                      SameStep(RunStep(Builtin(try_from(k).builtin), state0))
    /\ (Succeeded /\ StepToken.type = "UserDefined") =>
          \A i \in 2..Len(StepToken.body) :
              StepToken.body[i].type = "Word" =>
                  LET k == to_lowercase(StepToken.body[i].word)
                  IN  Installed(StepToken).body[i - 1] =
                          IF k \in DOMAIN dictionary0 THEN dictionary0[k]
                          ELSE Builtin(try_from(k).builtin)

\* C11 witness: with swap defined as dup and foo defined as that swap,
\* `1 2 foo` has duplicated the 2 where the builtin would have swapped
C11_Witness ==
    /\ Returned
    /\ input = Line(<<<<"1">>, <<"2">>, <<"f","o","o">>>>)
    /\ ret.err = NoErr
    /\ {<<"s","w","a","p">>, <<"f","o","o">>} \subseteq DOMAIN dictionary
    /\ dictionary[<<"s","w","a","p">>] = Definition(<<Builtin("Dup")>>)
    /\ dictionary[<<"f","o","o">>] = Definition(<<Definition(<<Builtin("Dup")>>)>>)
    /\ stack = start.stack \o Nums(<<1, 2, 2>>)

\* the positions in the body of a block of the names that nothing binds: not
\* the dictionary d, not the builtins
Unresolvable(block, d) ==
    {i \in 2..Len(block.body) : IsUnknown(block.body[i], d)}

\* the block has a name, and a body that holds such a name
HasUnresolvable(block, d) ==
    /\ block.type = "UserDefined"
    /\ Len(block.body) >= 1
    /\ block.body[1].type = "Word"
    /\ Unresolvable(block, d) # {}

\* the first such name, as written
FirstUnresolvable(block, d) ==
    block.body[CHOOSE i \in Unresolvable(block, d) :
                   \A j \in Unresolvable(block, d) : i <= j].word

\* C12 (unresolvable body reference): a block `: name ... ;` whose body holds
\* a lexeme that is no number, no defined word and no builtin has failed,
\* with UnknownWord carrying the first such lexeme as it was written, and has
\* left the dictionary and the stack as they were
C12_UnknownInBody ==
    (Stepped /\ HasUnresolvable(StepToken, dictionary0)) =>
        /\ Failed
        /\ ret.err = UnknownWord(FirstUnresolvable(StepToken, dictionary0))
        /\ dictionary = dictionary0
        /\ stack = stack0

\* C12 witness: with foo bound to 1, `: foo 1 BAZ 2 ;` has failed with
\* UnknownWord("BAZ") and foo is still bound to 1
C12_Witness ==
    /\ Failed
    /\ input = Line(<<<<":">>, <<"f","o","o">>, <<"1">>, <<"B","A","Z">>, <<"2">>, <<";">>>>)
    /\ ret.err = UnknownWord(<<"B","A","Z">>)
    /\ <<"f","o","o">> \in DOMAIN dictionary
    /\ dictionary[<<"f","o","o">>] = Definition(<<Number(IntNum(1))>>)

\* the block starts with a lexeme that parsed as a number
NumericName(block) ==
    /\ block.type = "UserDefined"
    /\ Len(block.body) >= 1
    /\ block.body[1].type = "Number"

\* C13 (numeric definition name): a block whose first lexeme parsed as a
\* number has failed with InvalidWord and has left the dictionary as it was;
\* no name of the dictionary parses as a number, and a top-level literal has
\* pushed its own value
C13_NumericName ==
    /\ (Stepped /\ NumericName(StepToken)) =>
          /\ Failed
          /\ ret.err = InvalidWord(StepToken.body)
          /\ dictionary = dictionary0
    /\ \A k \in DOMAIN dictionary : ~parse(k).ok
    /\ (Stepped /\ StepToken.type = "Number") =>
          /\ Succeeded
          /\ stack = Append(stack0, StepToken.num)

\* C13 witness: `: 1 2 ;` has failed with InvalidWord in a session in which
\* a word is defined
C13_Witness ==
    /\ Failed
    /\ input = Line(<<<<":">>, <<"1">>, <<"2">>, <<";">>>>)
    /\ ret.err.kind = "InvalidWord"
    /\ dictionary # <<>>
    /\ dictionary = start.dictionary

\* the builtins of the stack-effect table that rewrite the stack
StackBuiltins ==
    {"Drop", "Dup", "Swap", "Over", "Rot", "TwoDrop", "TwoDup", "TwoOver", "TwoSwap"}

\* the row of the table for the builtin b: what the operands o (o[1] the
\* deepest) become
TableAfter(b, o) ==
    CASE b = "Drop" -> <<>>
      [] b = "Dup" -> <<o[1], o[1]>>
      [] b = "Swap" -> <<o[2], o[1]>>
      [] b = "Over" -> <<o[1], o[2], o[1]>>
      [] b = "Rot" -> <<o[2], o[3], o[1]>>
      [] b = "TwoDrop" -> <<>>
      [] b = "TwoDup" -> <<o[1], o[2], o[1], o[2]>>
      [] b = "TwoOver" -> <<o[1], o[2], o[3], o[4], o[1], o[2]>>
      [] b = "TwoSwap" -> <<o[3], o[4], o[1], o[2]>>

\* the stack s with its top ArityOf(b) elements rewritten as the table says
TableEffect(b, s) ==
    LET below == Len(s) - ArityOf(b)
    IN  SubSeq(s, 1, below) \o TableAfter(b, SubSeq(s, below + 1, Len(s)))

\* C14 (stack-effect table): a top-level Drop, Dup, Swap, Over, Rot, 2Drop,
\* 2Dup, 2Over or 2Swap that started with at least as many elements as it
\* takes has succeeded, has left the dictionary alone, and has left the
\* stack it started with, its top operands rewritten as the table states
C14_StackEffects ==
    (/\ Stepped
     /\ IsTopBuiltin(StepToken, dictionary0)
     /\ BuiltinOf(StepToken) \in StackBuiltins
     /\ Len(stack0) >= ArityOf(BuiltinOf(StepToken))) =>
        /\ Succeeded
        /\ dictionary = dictionary0
        /\ stack = TableEffect(BuiltinOf(StepToken), stack0)

\* C14 witness: `rot` on the stack 1 2 3 4 has left 1 3 4 2
C14_Witness ==
    /\ Returned
    /\ input = Line(<<<<"r","o","t">>>>)
    /\ ret.err = NoErr
    /\ stack0 = Nums(<<1, 2, 3, 4>>)
    /\ stack = Nums(<<1, 3, 4, 2>>)

\* r is the product of the fractions a and b
IsProduct(r, a, b) == r.n * a.d * b.d = a.n * b.n * r.d

\* r is the quotient of the fraction a by the fraction b, b # 0
IsQuotient(r, a, b) == r.n * b.n * a.d = a.n * b.d * r.d

\* r is the remainder of the fraction a by the fraction b, b # 0, as `%`
\* defines it: a - r is a whole multiple of b, r is smaller than b in
\* absolute value, and r is 0 or has the sign of a
IsRemainder(r, a, b) ==
    /\ ((a.n * r.d - r.n * a.d) * b.d) % Abs(a.d * r.d * b.n) = 0
    /\ Abs(r.n) * b.d < Abs(b.n) * r.d
    /\ r.n = 0 \/ ((r.n > 0) <=> (a.n > 0))

BinaryBuiltins == {"Add", "Subtract", "Multiply", "Divide", "Mod", "SlashMod"}

\* rs is what the binary operation op makes of a and b, a the first pushed
IsBinaryResult(op, rs, a, b) ==
    CASE op = "Add" -> Len(rs) = 1 /\ IsSum(rs[1], a, b)
      [] op = "Subtract" -> Len(rs) = 1 /\ IsDifference(rs[1], a, b)
      [] op = "Multiply" -> Len(rs) = 1 /\ IsProduct(rs[1], a, b)
      [] op = "Divide" -> Len(rs) = 1 /\ IsQuotient(rs[1], a, b)
      [] op = "Mod" -> Len(rs) = 1 /\ IsRemainder(rs[1], a, b)
      [] op = "SlashMod" ->
            Len(rs) = 2 /\ IsRemainder(rs[1], a, b) /\ IsQuotient(rs[2], a, b)

\* C15 (binary operand order): a top-level `+`, `-`, `*`, `/`, `mod` or
\* `/mod` that started with a stack ending in a b, b not 0 where it divides,
\* has succeeded and has replaced a and b by a+b, a-b, a*b, a/b, a mod b, or
\* by a mod b below a/b, and has left the elements below a as they were
C15_OperandOrder ==
    (/\ Stepped
     /\ IsTopBuiltin(StepToken, dictionary0)
     /\ BuiltinOf(StepToken) \in BinaryBuiltins
     /\ Len(stack0) >= 2
     /\ BuiltinOf(StepToken) \in DivisionBuiltins => stack0[Len(stack0)] # Zero) =>
        /\ Succeeded
        /\ Len(stack) >= Len(stack0) - 2
        /\ SubSeq(stack, 1, Len(stack0) - 2) = SubSeq(stack0, 1, Len(stack0) - 2)
        /\ IsBinaryResult(BuiltinOf(StepToken),
                          SubSeq(stack, Len(stack0) - 1, Len(stack)),
                          stack0[Len(stack0) - 1], stack0[Len(stack0)])

\* C15 witness: `-7 2 /mod` on a stack that held a value has left -1 below
\* -3.5 above that value
C15_Witness ==
    /\ Returned
    /\ input = Line(<<<<"-","7">>, <<"2">>, <<"/","m","o","d">>>>)
    /\ ret.err = NoErr
    /\ Len(start.stack) = 1
    /\ stack = start.stack \o <<IntNum(-1), Rat(-7, 2)>>

\* the line is empty or made of whitespace only
IsBlank(l) == \A i \in 1..Len(l) : l[i] \in {" ", "\t", "\n", "\r"}

\* C16 (empty input): from every state a session reaches, eval of an empty
\* line or of a line of whitespace returns Ok(None) and leaves the state as
\* it is; and an eval call that was given such a line has returned Ok(None),
\* has run no token and has left the stack and the dictionary it started
\* with
C16_EmptyInput ==
    /\ pc = "idle" =>
          \A l \in LinesOutcomes : IsBlank(l) => eval(l, state) = Ok(state, None)
    /\ (evals > 0 /\ IsBlank(input)) =>
          /\ pc # "run"
          /\ tokens = <<>>
          /\ ret = [err |-> NoErr, res |-> None]
          /\ state = start

\* C16 witness: a line of a space, a tab, a carriage return and a newline
\* has been evaluated in a session that holds a value and a definition
C16_Witness ==
    /\ Returned
    /\ input = <<" ", "\t", "\r", "\n">>
    /\ ret = [err |-> NoErr, res |-> None]
    /\ stack # <<>>
    /\ dictionary # <<>>
    /\ state = start

\* main is in its loop
InLoop(p) == p \in {"idle", "run"}

\* a step of the driver between two reads leaves the session alone
SessionKept == UNCHANGED <<dictionary, stack, ret, evals>>

\* the environment ends the process: main cannot read its input, or stdout
\* cannot be written
EnvironmentFails == pc' \in {"failed", "panicked"}

\* the steps by which main leaves its loop, as claimed: the end of the input,
\* and UserQuit returned by eval
StopsAsClaimed ==
    (InLoop(pc) /\ ~InLoop(pc') /\ ~EnvironmentFails) =>
        /\ pc' = "quit"
        /\ IF pc = "run" THEN ret'.err = UserQuit ELSE SessionKept

\* what the driver does otherwise, as claimed: every eval call returns, and
\* main is back at its read unless the error is UserQuit; a line is only
\* read by main at its read, and given to eval with the session as the call
\* before left it; nothing changes the session between two calls; nothing
\* happens once main has left its loop
Continues ==
    /\ (pc = "run" /\ pc' # "run" /\ ~EnvironmentFails) =>
          pc' = (IF ret'.err = UserQuit THEN "quit" ELSE "idle")
    /\ evals' # evals =>
          /\ pc = "idle"
          /\ InLoop(pc')
          /\ evals' = evals + 1
          /\ start' = state
          /\ UNCHANGED <<dictionary, stack>>
    /\ (pc = "idle" /\ evals' = evals) => SessionKept
    /\ InLoop(pc)

\* C17 (driver loop), as claimed, the failures of the environment set aside:
\* main leaves its loop only at the end of the input or when eval returns
\* UserQuit; after every other outcome of eval it reads the next line and
\* evaluates it on the session as the call before left it
C17_StopsOnlyOnEndOrQuit ==
    [][StopsAsClaimed /\ Continues]_vars

\* the token is a block `: name ... ;` with a name
IsBlock(token) ==
    /\ token.type = "UserDefined"
    /\ Len(token.body) >= 1
    /\ token.body[1].type = "Word"

\* the name a block defines
BlockName(token) == to_lowercase(token.body[1].word)

\* the block can be resolved with the dictionary d and the builtins alone
Installable(token, d) == IsBlock(token) /\ Unresolvable(token, d) = {}

\* C18 (definitions are installed by the compiler), as claimed: the blocks
\* of a line are installed before any of its top-level tokens is executed,
\* so that when eval has returned, with an error of a token or without,
\* every block of the line that the dictionary of before the call can
\* resolve has been installed
C18_InstalledByCompiler ==
    (Returned /\ ret.err # Unterminated) =>
        \A i \in 1..Len(tokens) :
            Installable(tokens[i], start.dictionary) =>
                BlockName(tokens[i]) \in DOMAIN dictionary

\* C19 (result of a successful eval): an eval call that has succeeded on a
\* line of tokens has returned a value exactly when the last top-level token
\* is a numeric literal, and then that literal, which is also on top of the
\* stack; when the last token is a builtin, a block or a call of a word, it
\* has returned no value
C19_ValueOfEval ==
    (Returned /\ ret.err = NoErr /\ tokens # <<>>) =>
        IF tokens[Len(tokens)].type = "Number"
        THEN /\ ret.res = Some(tokens[Len(tokens)].num)
             /\ stack # <<>>
             /\ stack[Len(stack)] = tokens[Len(tokens)].num
        ELSE ret.res = None

\* C19 witness: with foo defined as 5, the line `foo` has pushed 5 and eval
\* has returned no value
C19_Witness ==
    /\ Returned
    /\ input = Line(<<<<"f","o","o">>>>)
    /\ ret = [err |-> NoErr, res |-> None]
    /\ stack = start.stack \o Nums(<<5>>)

\* the position in the line's tokens of the token last evaluated
StepPos == IF Failed THEN idx ELSE idx - 1

\* the positions of the blocks of the line, before the position p, that
\* define the name k
BlocksBefore(p, k) ==
    {i \in 1..(p - 1) : IsBlock(tokens[i]) /\ BlockName(tokens[i]) = k}

\* the binding b is the one the block installs: a body as long as the
\* block's, with the block's literals in their places, and a builtin or a
\* stored definition in the place of each name
BindingOf(b, block) ==
    /\ b.type = "Definition"
    /\ Len(b.body) = Len(block.body) - 1
    /\ \A m \in 2..Len(block.body) :
          IF block.body[m].type = "Number"
          THEN b.body[m - 1] = block.body[m]
          ELSE b.body[m - 1].type \in {"Builtin", "Definition"}

\* C20 (left to right within one line): from every state a session reaches,
\* `: one 1 ; : two 2 ; one two +` on an empty stack defines one as 1 and
\* two as 2 and leaves 3, and `1 2 + : addone 1 + ; addone` leaves 4;
\* `: foo 2 ; foo : foo 3 ; foo` leaves 2 then 3; and `foo : foo 1 ;` calls
\* the foo of before the line and then binds foo to 1, or fails with
\* UnknownWord("foo") and binds nothing when foo was not bound
C20_Scenario ==
    pc = "idle" =>
        LET r1 == eval(Line(<<<<":">>, <<"o","n","e">>, <<"1">>, <<";">>,
                              <<":">>, <<"t","w","o">>, <<"2">>, <<";">>,
                              <<"o","n","e">>, <<"t","w","o">>, <<"+">>>>),
                       WithStack(state, <<>>))
            r2 == eval(Line(<<<<"1">>, <<"2">>, <<"+">>, <<":">>, <<"a","d","d","o","n","e">>,
                              <<"1">>, <<"+">>, <<";">>, <<"a","d","d","o","n","e">>>>),
                       WithStack(state, <<>>))
        IN  /\ IsOk(r1)
            /\ r1.st.stack = Nums(<<3>>)
            /\ r1.st.dictionary[<<"o","n","e">>] = Definition(<<Number(IntNum(1))>>)
            /\ r1.st.dictionary[<<"t","w","o">>] = Definition(<<Number(IntNum(2))>>)
            /\ IsOk(r2)
            /\ r2.st.stack = Nums(<<4>>)
            /\ LET r3 == eval(Line(<<<<":">>, <<"f","o","o">>, <<"2">>, <<";">>, <<"f","o","o">>,
                                      <<":">>, <<"f","o","o">>, <<"3">>, <<";">>, <<"f","o","o">>>>),
                               WithStack(state, <<>>))
                   r4 == eval(Line(<<<<"f","o","o">>, <<":">>, <<"f","o","o">>, <<"1">>, <<";">>>>),
                              state)
               IN  /\ IsOk(r3)
                   /\ r3.st.stack = Nums(<<2, 3>>)
                   /\ r3.st.dictionary[<<"f","o","o">>] = Definition(<<Number(IntNum(3))>>)
                   /\ IF <<"f","o","o">> \in DOMAIN dictionary
                      THEN /\ <<r4.st.stack, r4.err, r4.res>> =
                                  CallOf(<<"f","o","o">>, stack, dictionary)
                           /\ r4.st.dictionary[<<"f","o","o">>] =
                                  Definition(<<Number(IntNum(1))>>)
                      ELSE /\ r4.err = UnknownWord(<<"f","o","o">>)
                           /\ r4.st = state

\* C20 (left to right within one line): a top-level word has been resolved
\* with the binding of the last block of its name placed before it on the
\* line; when no block before it has its name, with the binding the session
\* had before the call, and when there was none and no builtin has the name
\* it has failed with UnknownWord; and the word has done what that binding
\* does on the stack the tokens before it left
C20_LeftToRight ==
    /\ C20_Scenario
    /\ (Stepped /\ StepToken.type = "Word") =>
          LET k == to_lowercase(StepToken.word)
              before == BlocksBefore(StepPos, k)
              last == CHOOSE i \in before : \A j \in before : j <= i
          IN  /\ IF before # {}
                 THEN /\ k \in DOMAIN dictionary0
                      /\ BindingOf(dictionary0[k], tokens[last])
                 ELSE /\ k \in DOMAIN dictionary0 <=> k \in DOMAIN start.dictionary
                      /\ k \in DOMAIN dictionary0 =>
                            dictionary0[k] = start.dictionary[k]
                      /\ IsUnknown(StepToken, dictionary0) =>
                            Failed /\ ret.err = UnknownWord(StepToken.word)
              /\ k \in DOMAIN dictionary0 =>
                    SameStep(RunStep(dictionary0[k], state0))

\* C20 witness: `: foo 2 ; foo : foo 3 ; foo` has pushed 2 then 3 and has
\* left foo bound to 3
C20_Witness ==
    /\ Returned
    /\ input = Line(<<<<":">>, <<"f","o","o">>, <<"2">>, <<";">>, <<"f","o","o">>,
                       <<":">>, <<"f","o","o">>, <<"3">>, <<";">>, <<"f","o","o">>>>)
    /\ ret.err = NoErr
    /\ stack = start.stack \o Nums(<<2, 3>>)
    /\ dictionary[<<"f","o","o">>] = Definition(<<Number(IntNum(3))>>)

\* the step evaluates, with success, a block that has a name
BlockCloses ==
    /\ pc = "run"
    /\ idx <= Len(tokens)
    /\ IsBlock(tokens[idx])
    /\ idx' = idx + 1

\* the step changes the dictionary only by a block that closes with success,
\* and only under the lower-cased name of that block; it removes no entry
\* and leaves every other entry as it was; and a block that closes with
\* success leaves its name bound to its own body
FrameStep ==
    /\ dictionary' # dictionary =>
          /\ BlockCloses
          /\ Rebound = {BlockName(tokens[idx])}
    /\ \A k \in DOMAIN dictionary :
          /\ k \in DOMAIN dictionary'
          /\ k \notin Rebound => dictionary'[k] = dictionary[k]
    /\ BlockCloses =>
          /\ BlockName(tokens[idx]) \in DOMAIN dictionary'
          /\ BindingOf(dictionary'[BlockName(tokens[idx])], tokens[idx])

\* the line of the last eval call has no lexeme `;`
NoSemicolon == \A i \in 1..Len(Lexemes) : Lexemes[i] # <<";">>

\* C21 (dictionary frame): every step of a session changes the dictionary
\* only when a block closes with success, and then only the entry under the
\* block's lower-cased name; no entry is removed and every other entry is
\* unchanged; and an eval call whose line has no `;` has left the dictionary
\* as it was, whatever it returned
C21_DictionaryFrame ==
    [][FrameStep]_vars
        /\ []((evals > 0 /\ NoSemicolon) => dictionary = start.dictionary)

\* C21 witness: `: FOO 7 ;` has overwritten the entry foo, which was bound
\* to another body, and has left the entry bar as it was
C21_Witness ==
    /\ Returned
    /\ input = Line(<<<<":">>, <<"F","O","O">>, <<"7">>, <<";">>>>)
    /\ ret.err = NoErr
    /\ DOMAIN dictionary = {<<"f","o","o">>, <<"b","a","r">>}
    /\ DOMAIN start.dictionary = DOMAIN dictionary
    /\ dictionary[<<"f","o","o">>] = Definition(<<Number(IntNum(7))>>)
    /\ start.dictionary[<<"f","o","o">>] # dictionary[<<"f","o","o">>]
    /\ dictionary[<<"b","a","r">>] = start.dictionary[<<"b","a","r">>]

\* the greatest of a set of naturals, 0 for the empty set
MaxOf(S) == IF S = {} THEN 0 ELSE CHOOSE d \in S : \A e \in S : e <= d

\* the stored definitions that the body of the block names
Referenced(block, d) ==
    {k \in DOMAIN d :
        \E m \in 2..Len(block.body) :
            /\ block.body[m].type = "Word"
            /\ to_lowercase(block.body[m].word) = k}

\* what the stored tree t does from the stack s when no name can be looked up
ClosedCall(t, s) ==
    LET r == EvalToken(t, [dictionary |-> NewState.dictionary, stack |-> s])
    IN  <<r.st.stack, r.err, r.res>>

\* inside an eval call, a step either returns from the call, to main's read
\* or to its end, or moves to the next of the tokens of the line, which stay
\* the same: the tokens that remain are fewer at every step, and never
\* fewer than none (a stdout that cannot be written set aside)
RunVariant ==
    (pc = "run" /\ pc' # "panicked") =>
        \/ pc' \in {"idle", "quit"}
        \/ /\ pc' = "run"
           /\ tokens' = tokens
           /\ idx' = idx + 1
           /\ idx' <= Len(tokens) + 1

\* the depth of a definition is set when its block closes, to at most one
\* more than the deepest stored definition the block names, and does not
\* change until the name is bound again
DepthStep ==
    /\ BlockCloses =>
          Depth(dictionary'[BlockName(tokens[idx])])
              <= 1 + MaxOf({Depth(dictionary[k]) :
                               k \in Referenced(tokens[idx], dictionary)})
    /\ \A k \in DOMAIN dictionary' \ Rebound :
          Depth(dictionary'[k]) = Depth(dictionary[k])

\* every stored definition is a tree of resolved tokens, and calling its
\* name does what evaluating that tree does with no dictionary to look
\* names up in
ClosedTrees ==
    \A k \in DOMAIN dictionary :
        /\ FullyResolved(dictionary[k])
        /\ Depth(dictionary[k]) >= 1
        /\ (pc = "idle" /\ dictionary[k].type = "Definition")
              => CallOf(k, stack, dictionary) = ClosedCall(dictionary[k], stack)

\* C22 (termination), as claimed: an eval call runs through the tokens of
\* its line, one at each step, and returns; a user-defined word is a finite
\* tree of resolved tokens whose call looks no name up, whose depth is set
\* when its block closes, to at most one more than the deepest definition
\* the block names, self-referencing redefinitions included
C22_Termination ==
    [][RunVariant /\ DepthStep]_vars /\ []ClosedTrees

\* C23 (lexer contract), as claimed: the lexemes of a line are folded to
\* lower case, so that when an eval call has failed every lexeme of its line
\* is in lower case, and the name an UnknownWord error carries is in lower
\* case (`1 FOO` with foo undefined reports UnknownWord("foo"))
C23_LexerContract ==
    Failed =>
        /\ \A i \in 1..Len(Lexemes) : Lexemes[i] = to_lowercase(Lexemes[i])
        /\ ret.err.kind = "UnknownWord" =>
              ret.err.payload = to_lowercase(ret.err.payload)

\* C24 (Unterminated changes nothing): when the last eval call has returned
\* Unterminated, the stack and the dictionary are those of before the call
\* and no token has run; and from every state a session reaches, a line
\* that returns Unterminated returns the state it was given, whatever
\* numbers, operators and complete blocks come before its open `:`
\* (`1 2 : one 1 ; : foo` pushes nothing and defines nothing)
C24_UnterminatedFrame ==
    /\ (evals > 0 /\ ret.err = Unterminated) =>
          /\ state = start
          /\ tokens = <<>>
          /\ pc # "run"
    /\ pc = "idle" =>
          /\ eval(Line(<<<<"1">>, <<"2">>, <<":">>, <<"o","n","e">>, <<"1">>,
                         <<";">>, <<":">>, <<"f","o","o">>>>), state)
                = Err(state, Unterminated)
          /\ \A l \in LinesOpen :
                eval(l, state).err = Unterminated => eval(l, state).st = state

\* C24 witness: with 2 on the stack and foo bound to 1, the line
\* `1 : foo 2 ; : bar` has returned Unterminated: 1 is not pushed, foo is
\* still bound to 1 and bar is not defined
C24_Witness ==
    /\ evals > 1
    /\ input = Line(<<<<"1">>, <<":">>, <<"f","o","o">>, <<"2">>, <<";">>,
                      <<":">>, <<"b","a","r">>>>)
    /\ ret.err = Unterminated
    /\ stack = <<IntNum(2)>>
    /\ DOMAIN dictionary = {<<"f","o","o">>}
    /\ dictionary[<<"f","o","o">>] = Definition(<<Number(IntNum(1))>>)

====
